---- MODULE Spec2Model ----
(***************************************************************************)
(* A model of the Gmail-to-BizDash browser extension: the auth manager     *)
(* (lib/auth), the CRM client (lib/api), the Gmail API client              *)
(* (lib/gmail-api), the background coordinator (service-worker.ts) and    *)
(* the button the content script injects (content/gmail-integration.tsx). *)
(*                                                                         *)
(* Every async function is a task that advances one await at a time; the   *)
(* code between two awaits is one atomic step (single-threaded event       *)
(* loop).  A chrome.storage operation takes effect in the step in which    *)
(* the code after its await resumes.                                       *)
(***************************************************************************)
EXTENDS Integers, Sequences, FiniteSets, TLC

VARIABLES
    currentAuthState,  \* lib/auth: let currentAuthState
    accessToken,       \* lib/gmail-api: let accessToken
    apiBaseUrl,        \* lib/api: let apiBaseUrl
    authToken,         \* lib/api: let authToken
    localStore,        \* chrome.storage.local: the two auth records
    syncSettings,      \* chrome.storage.sync: the 'settings' record
    sessionEmail,      \* chrome.storage.session: 'currentEmail'
    now,               \* Date.now()
    init,              \* the initializeAuth() call made at worker start
    tasks,             \* the async calls in flight, one per slot
    last,              \* the call that settled most recently
    opCount,           \* calls started so far
    restarts,          \* worker restarts so far
    crmLogged,         \* CRM backend: gmailMessageIds already logged
    posts,             \* the last email POST sent: where to, and the configured URL then
    gmailSent,         \* the last Gmail API request sent: token used, whether expired
    logSuccess,        \* per gmailMessageId, the LOG_EMAIL responses with success: true
    acked,             \* the UPDATE_SETTINGS payloads answered with success: true
    dom,               \* the Gmail page: the open message, if any
    ui,                \* content script: the state of GmailToCRMIntegration
    notifications,     \* chrome.notifications: the notifications created
    popup,             \* the extension popup: the state of Popup
    menus,             \* the Gmail page: its div[role="menu"] elements
    watchers,          \* content script: the observer and timers of each watchForGmailMenu
    clickedEmailRow,   \* content script: let clickedEmailRow
    press              \* the mouse press on the injected menu item, and what it caused

vars == <<currentAuthState, accessToken, apiBaseUrl, authToken, localStore,
          syncSettings, sessionEmail, now, init, tasks, last, opCount,
          restarts, crmLogged, posts, gmailSent, logSuccess, acked, dom, ui,
          notifications, popup, menus, watchers, clickedEmailRow, press>>

----------------------------------------------------------------------------
(* Bounds *)

MaxTasks == 2
MaxOps == 3
MaxRestarts == 1
MaxTicks == 3
MaxNameLen == 3
MaxPartLen == 2
MaxHeaderLen == 6
MaxClicks == 2
MaxRightClicks == 2

Slots == 1..MaxTasks

----------------------------------------------------------------------------
(* Values *)

Null == [isNull |-> TRUE]
NullToken == "null"
NoKey == "undefined"

DefaultApiUrl == "http://localhost:8000"
OtherApiUrl == "https://crm.example"
Urls == {DefaultApiUrl, OtherApiUrl}
ApiKeys == {NoKey, "key1"}
OAuthTokens == {"tokA", "tokB"}
MessageIds == {"m1", "m2"}

TokenLifetimeMs == 3600 * 1000
TickMs == TokenLifetimeMs \div 2

FullScope ==
    "https://www.googleapis.com/auth/gmail.readonly https://www.googleapis.com/auth/userinfo.email"

STORAGE_KEYS == [GOOGLE_TOKEN |-> "gmail_to_crm_google_token",
                 BIZDASH_AUTH |-> "gmail_to_crm_bizdash_auth"]

\* a ?? b
Coalesce(a, b) == IF a = Null THEN b ELSE a

\* updates.k, for a Partial<AuthState> given as a function on the keys present
Field(updates, k) == IF k \in DOMAIN updates THEN updates[k] ELSE Null

----------------------------------------------------------------------------
(* lib/auth: state management *)

DEFAULT_AUTH_STATE ==
    [google |-> Null, bizdash |-> Null, isFullyAuthenticated |-> FALSE]

getAuthState == currentAuthState

\* an update that builds the new state from the update alone
updateAuthStateReplacing(cur, updates) ==
    [google   |-> Field(updates, "google"),
     bizdash  |-> Field(updates, "bizdash"),
     isFullyAuthenticated |->
         /\ Coalesce(Field(updates, "google"), cur.google) # Null
         /\ Coalesce(Field(updates, "bizdash"), cur.bizdash) # Null]

updateAuthState(cur, updates) ==
    [google   |-> IF "google" \in DOMAIN updates THEN updates.google ELSE cur.google,
     bizdash  |-> IF "bizdash" \in DOMAIN updates THEN updates.bizdash ELSE cur.bizdash,
     isFullyAuthenticated |->
         /\ Coalesce(Field(updates, "google"), cur.google) # Null
         /\ Coalesce(Field(updates, "bizdash"), cur.bizdash) # Null]

isGoogleTokenValid ==
    IF currentAuthState.google = Null THEN FALSE
    ELSE currentAuthState.google.expiresAt > now

GoogleAuthToken(token, scope) ==
    [accessToken |-> token, expiresAt |-> now + TokenLifetimeMs, scope |-> scope]

BizDashAuth(apiUrl, apiKey) ==
    [apiUrl |-> apiUrl, apiKey |-> apiKey, tenantId |-> "default",
     isAuthenticated |-> TRUE, userEmail |-> "connected"]

\* lib/api configureApi: token || null
configureApi(token) == IF token \in {NoKey, ""} THEN NullToken ELSE token

----------------------------------------------------------------------------
(* Tasks *)

Pending == [state |-> "pending"]
Resolved(d) == [state |-> "resolved", data |-> d]
Rejected(e) == [state |-> "rejected", error |-> e]

Err(kind, detail) == [message |-> kind, detail |-> detail]

IdleTask == [op |-> "idle", pc |-> "idle", arg |-> Null, loc |-> Null, group |-> 0]

NoCall == [op |-> "none", arg |-> Null, loc |-> Null, res |-> Pending,
           resp |-> <<>>, toast |-> "none", group |-> 0, slot |-> 0]

Free(s) == tasks[s].pc = "idle"
InFlight(s) == tasks[s].pc \notin {"idle", "hung"}
FirstFree(s) == Free(s) /\ \A r \in Slots : r < s => ~Free(r)
CanStart(s) == FirstFree(s) /\ opCount < MaxOps

MessageTypes == {"LOG_EMAIL", "SEARCH_CONTACT", "GET_AUTH_STATE",
                 "AUTHENTICATE_GOOGLE", "AUTHENTICATE_BIZDASH",
                 "GET_SETTINGS", "UPDATE_SETTINGS", "EMAIL_SELECTED"}
\* content/gmail-integration.tsx sends this type; handleMessage has no case for it
UnknownType == "CONTENT_SCRIPT_READY"

\* a listener that answers every failure with a fixed text
ResponseForGeneric(res) ==
    IF res.state = "resolved"
    THEN [success |-> TRUE, data |-> res.data]
    ELSE [success |-> FALSE, error |-> [message |-> "Unknown error", detail |-> ""]]

\* service-worker.ts onMessage listener: the response sent for a settled handler
ResponseFor(res) ==
    IF res.state = "resolved"
    THEN [success |-> TRUE, data |-> res.data]
    ELSE [success |-> FALSE,
          error |-> IF res.error.message = "" THEN Err("Unknown error", "")
                    ELSE res.error]

IsMessage(op) == op \in MessageTypes \cup {UnknownType}

\* content/gmail-integration.tsx handleLogToCrm: the toast shown for a response
ToastFor(response) == IF response.success THEN "success" ELSE "error"

\* the record of a call whose promise settles with res; slot is where it ran
\* (0: it settled before its first await)
Settled(t, res, slot) ==
    [op |-> t.op, arg |-> t.arg, loc |-> t.loc, res |-> res,
     resp |-> IF IsMessage(t.op) THEN <<ResponseFor(res)>> ELSE <<>>,
     toast |-> IF t.op = "LOG_EMAIL" THEN ToastFor(ResponseFor(res)) ELSE "none",
     group |-> t.group, slot |-> slot]

\* the call in slot s settles with res and leaves its slot
Settle(s, res) ==
    /\ last' = Settled(tasks[s], res, s)
    /\ tasks' = [tasks EXCEPT ![s] = IdleTask]

\* the call in slot s settles with res; loc is what it held when it settled
SettleWith(s, loc, res) ==
    /\ last' = Settled([tasks[s] EXCEPT !.loc = loc], res, s)
    /\ tasks' = [tasks EXCEPT ![s] = IdleTask]

NewTask(op, pc, arg, loc) ==
    [op |-> op, pc |-> pc, arg |-> arg, loc |-> loc, group |-> 0]

\* a call in slot s goes on to its next await
Advance(s, pc, loc) ==
    /\ tasks' = [tasks EXCEPT ![s].pc = pc, ![s].loc = loc]
    /\ UNCHANGED last

\* a call starts in slot s and runs to its first await
Begin(s, task) ==
    /\ tasks' = [tasks EXCEPT ![s] = task]
    /\ opCount' = opCount + 1
    /\ UNCHANGED last

\* a call settles before its first await
Immediate(task, res) ==
    /\ last' = Settled(task, res, 0)
    /\ opCount' = opCount + 1
    /\ UNCHANGED tasks

memVars == <<currentAuthState, accessToken, apiBaseUrl, authToken>>
storeVars == <<localStore, syncSettings, sessionEmail>>
menuVars == <<menus, watchers, clickedEmailRow, press>>
pageVars == <<dom, ui, popup, menuVars>>
envVars == <<now, init, restarts, pageVars, notifications>>
netVars == <<crmLogged, posts, gmailSent, logSuccess, acked>>

----------------------------------------------------------------------------
(* lib/auth: Google OAuth *)

GoogleOps == {"authenticateGoogle", "AUTHENTICATE_GOOGLE"}

\* authenticateGoogle up to chrome.identity.getAuthToken({interactive: true})
StartAuthenticateGoogle(s, op) ==
    /\ CanStart(s)
    /\ op \in GoogleOps
    /\ Begin(s, NewTask(op, "consent", Null, Null))
    /\ UNCHANGED <<memVars, storeVars, envVars, netVars>>

\* the getAuthToken callback: reject, or build the token record, configure
\* the Gmail client and start saveToStorage
ConsentCallback(s) ==
    /\ tasks[s].pc = "consent"
    /\ \E outcome \in {"lastError", "noToken"} \cup OAuthTokens :
         IF outcome = "lastError"
         THEN /\ Settle(s, Rejected(Err("chrome.runtime.lastError", "")))
              /\ UNCHANGED accessToken
         ELSE IF outcome = "noToken"
         THEN /\ Settle(s, Rejected(Err("No token received from Google OAuth", "")))
              /\ UNCHANGED accessToken
         ELSE /\ accessToken' = outcome
              /\ Advance(s, "saveGoogle", GoogleAuthToken(outcome, FullScope))
    /\ UNCHANGED <<currentAuthState, apiBaseUrl, authToken, storeVars, envVars,
                   opCount, netVars>>

\* refreshGoogleToken up to chrome.identity.getAuthToken({interactive: false})
StartRefreshGoogleToken(s) ==
    /\ CanStart(s)
    /\ Begin(s, NewTask("refreshGoogleToken", "silent", Null, Null))
    /\ UNCHANGED <<memVars, storeVars, envVars, netVars>>

SilentCallback(s) ==
    /\ tasks[s].pc = "silent"
    /\ \E outcome \in {"failed"} \cup OAuthTokens :
         IF outcome = "failed"
         THEN /\ Settle(s, Resolved(Null))
              /\ UNCHANGED accessToken
         ELSE /\ accessToken' = outcome
              /\ Advance(s, "saveGoogle", GoogleAuthToken(outcome,
                     IF currentAuthState.google = Null THEN ""
                     ELSE currentAuthState.google.scope))
    /\ UNCHANGED <<currentAuthState, apiBaseUrl, authToken, storeVars, envVars,
                   opCount, netVars>>

\* an async callback inside new Promise(...) threw after an await: nothing
\* settles the promise
AsyncCallbackThrew(s) ==
    /\ tasks' = [tasks EXCEPT ![s].pc = "hung"]
    /\ UNCHANGED last

\* await saveToStorage(GOOGLE_TOKEN, token); updateAuthState({google: token}); resolve
SaveGoogleToken(s) ==
    /\ tasks[s].pc = "saveGoogle"
    /\ \E ok \in BOOLEAN :
         IF ok
         THEN /\ localStore' = [localStore EXCEPT ![STORAGE_KEYS.GOOGLE_TOKEN] = tasks[s].loc]
              /\ currentAuthState' =
                     updateAuthState(currentAuthState, [google |-> tasks[s].loc])
              /\ Settle(s, Resolved(tasks[s].loc))
         ELSE /\ AsyncCallbackThrew(s)
              /\ UNCHANGED <<localStore, currentAuthState>>
    /\ UNCHANGED <<accessToken, apiBaseUrl, authToken, syncSettings, sessionEmail,
                   envVars, opCount, netVars>>

\* revokeGoogleToken up to its first await
RevokeTask(group) ==
    LET token == IF currentAuthState.google = Null THEN NullToken
                 ELSE currentAuthState.google.accessToken
    IN  [NewTask("revokeGoogleToken",
                 IF token # NullToken THEN "uncache" ELSE "removeGoogle",
                 Null, [token |-> token, fetchFailed |-> FALSE])
           EXCEPT !.group = group]

StartRevokeGoogleToken(s) ==
    /\ CanStart(s)
    /\ Begin(s, RevokeTask(0))
    /\ UNCHANGED <<memVars, storeVars, envVars, netVars>>

\* removeCachedAuthToken returned; the revocation request is sent
UncacheCallback(s) ==
    /\ tasks[s].pc = "uncache"
    /\ Advance(s, "revokeFetch", tasks[s].loc)
    /\ UNCHANGED <<memVars, storeVars, envVars, opCount, netVars>>

\* a revocation request whose failure is not caught
RevokeFetchDoneUncaught(s) ==
    /\ tasks[s].pc = "revokeFetch"
    /\ \E ok \in BOOLEAN :
         IF ok THEN Advance(s, "removeGoogle", tasks[s].loc)
         ELSE Settle(s, Rejected(Err("Failed to fetch", "")))
    /\ UNCHANGED <<memVars, storeVars, envVars, opCount, netVars>>

\* the revocation request answered or threw (caught); removeFromStorage starts
RevokeFetchDone(s) ==
    /\ tasks[s].pc = "revokeFetch"
    /\ \E ok \in BOOLEAN :
         Advance(s, "removeGoogle", [tasks[s].loc EXCEPT !.fetchFailed = ~ok])
    /\ UNCHANGED <<memVars, storeVars, envVars, opCount, netVars>>

\* a removal that clears the track in memory whether or not storage did
RemoveGoogleTokenRegardless(s) ==
    /\ tasks[s].pc = "removeGoogle"
    /\ \E ok \in BOOLEAN :
         /\ localStore' = IF ok THEN [localStore EXCEPT ![STORAGE_KEYS.GOOGLE_TOKEN] = Null]
                          ELSE localStore
         /\ currentAuthState' = updateAuthState(currentAuthState, [google |-> Null])
         /\ Settle(s, Resolved(Null))
    /\ UNCHANGED <<accessToken, apiBaseUrl, authToken, syncSettings, sessionEmail,
                   envVars, opCount, netVars>>

\* await removeFromStorage(GOOGLE_TOKEN); updateAuthState({google: null})
RemoveGoogleToken(s) ==
    /\ tasks[s].pc = "removeGoogle"
    /\ \E ok \in BOOLEAN :
         IF ok
         THEN /\ localStore' = [localStore EXCEPT ![STORAGE_KEYS.GOOGLE_TOKEN] = Null]
              /\ currentAuthState' = updateAuthState(currentAuthState, [google |-> Null])
              /\ Settle(s, Resolved(Null))
         ELSE /\ Settle(s, Rejected(Err("chrome.runtime.lastError", "")))
              /\ UNCHANGED <<localStore, currentAuthState>>
    /\ UNCHANGED <<accessToken, apiBaseUrl, authToken, syncSettings, sessionEmail,
                   envVars, opCount, netVars>>

----------------------------------------------------------------------------
(* lib/auth: BizDash connection *)

BizDashOps == {"authenticateBizDash", "AUTHENTICATE_BIZDASH"}

\* authenticateBizDash up to fetch(`${apiUrl}/health`); the coordinator passes
\* no apiKey
StartAuthenticateBizDash(s, op, apiUrl, apiKey) ==
    /\ CanStart(s)
    /\ op \in BizDashOps
    /\ op = "AUTHENTICATE_BIZDASH" => apiKey = NoKey
    /\ Begin(s, NewTask(op, "probe", [apiUrl |-> apiUrl, apiKey |-> apiKey],
                        [probed |-> <<apiUrl, "/health">>]))
    /\ UNCHANGED <<memVars, storeVars, envVars, netVars>>

\* a probe whose failure also signs the CRM track out
ProbeDoneSigningOut(s) ==
    /\ tasks[s].pc = "probe"
    /\ \E outcome \in {"ok", "status", "transport"} :
         IF outcome # "ok"
         THEN /\ Settle(s, Rejected(Err("Cannot connect to BizDash at",
                                        tasks[s].arg.apiUrl)))
              /\ currentAuthState' = updateAuthState(currentAuthState, [bizdash |-> Null])
              /\ UNCHANGED <<apiBaseUrl, authToken>>
         ELSE /\ apiBaseUrl' = tasks[s].arg.apiUrl
              /\ authToken' = configureApi(
                     IF tasks[s].arg.apiKey = NoKey THEN "" ELSE tasks[s].arg.apiKey)
              /\ Advance(s, "saveBizdash",
                         BizDashAuth(tasks[s].arg.apiUrl, tasks[s].arg.apiKey))
              /\ UNCHANGED currentAuthState
    /\ UNCHANGED <<accessToken, storeVars, envVars, opCount, netVars>>

\* the probe answered: throw, or build the record, configure the CRM client
\* and start saveToStorage
ProbeDone(s) ==
    /\ tasks[s].pc = "probe"
    /\ \E outcome \in {"ok", "status", "transport"} :
         IF outcome # "ok"
         THEN /\ Settle(s, Rejected(Err("Cannot connect to BizDash at",
                                        tasks[s].arg.apiUrl)))
              /\ UNCHANGED <<apiBaseUrl, authToken>>
         ELSE /\ apiBaseUrl' = tasks[s].arg.apiUrl
              /\ authToken' = configureApi(
                     IF tasks[s].arg.apiKey = NoKey THEN "" ELSE tasks[s].arg.apiKey)
              /\ Advance(s, "saveBizdash",
                         BizDashAuth(tasks[s].arg.apiUrl, tasks[s].arg.apiKey))
    /\ UNCHANGED <<currentAuthState, accessToken, storeVars, envVars, opCount, netVars>>

\* await saveToStorage(BIZDASH_AUTH, record); updateAuthState({bizdash: record})
SaveBizDashAuth(s) ==
    /\ tasks[s].pc = "saveBizdash"
    /\ \E ok \in BOOLEAN :
         IF ok
         THEN /\ localStore' = [localStore EXCEPT ![STORAGE_KEYS.BIZDASH_AUTH] = tasks[s].loc]
              /\ currentAuthState' =
                     updateAuthState(currentAuthState, [bizdash |-> tasks[s].loc])
              /\ Settle(s, Resolved(tasks[s].loc))
         ELSE /\ Settle(s, Rejected(Err("chrome.runtime.lastError", "")))
              /\ UNCHANGED <<localStore, currentAuthState>>
    /\ UNCHANGED <<accessToken, apiBaseUrl, authToken, syncSettings, sessionEmail,
                   envVars, opCount, netVars>>

\* signOutBizDash up to its await
SignOutTask(group) ==
    [NewTask("signOutBizDash", "removeBizdash", Null, Null) EXCEPT !.group = group]

StartSignOutBizDash(s) ==
    /\ CanStart(s)
    /\ Begin(s, SignOutTask(0))
    /\ UNCHANGED <<memVars, storeVars, envVars, netVars>>

\* await removeFromStorage(BIZDASH_AUTH); updateAuthState({bizdash: null})
RemoveBizDashAuth(s) ==
    /\ tasks[s].pc = "removeBizdash"
    /\ \E ok \in BOOLEAN :
         IF ok
         THEN /\ localStore' = [localStore EXCEPT ![STORAGE_KEYS.BIZDASH_AUTH] = Null]
              /\ currentAuthState' = updateAuthState(currentAuthState, [bizdash |-> Null])
              /\ Settle(s, Resolved(Null))
         ELSE /\ Settle(s, Rejected(Err("chrome.runtime.lastError", "")))
              /\ UNCHANGED <<localStore, currentAuthState>>
    /\ UNCHANGED <<accessToken, apiBaseUrl, authToken, syncSettings, sessionEmail,
                   envVars, opCount, netVars>>

\* signOutAll: Promise.all([revokeGoogleToken(), signOutBizDash()]); both calls
\* run to their first await at once, then each goes on by itself
StartSignOutAll(s, r) ==
    /\ CanStart(s)
    /\ r \in Slots /\ r > s /\ Free(r)
    /\ \A q \in Slots : (s < q /\ q < r) => ~Free(q)
    /\ tasks' = [tasks EXCEPT ![s] = RevokeTask(opCount + 1),
                              ![r] = SignOutTask(opCount + 1)]
    /\ opCount' = opCount + 1
    /\ UNCHANGED <<last, memVars, storeVars, envVars, netVars>>

----------------------------------------------------------------------------
(* lib/auth: initializeAuth, and the worker's life cycle *)

InitStarted == [pc |-> "read", outcome |-> "none"]

\* an initializeAuth that drops a token record whose expiry has passed
InitializeAuthFresh ==
    /\ init.pc = "read"
    /\ \E ok \in BOOLEAN :
         IF ok
         THEN LET stored == localStore[STORAGE_KEYS.GOOGLE_TOKEN]
                  googleToken == IF stored # Null /\ stored.expiresAt <= now
                                 THEN Null ELSE stored
                  bizdashAuth == localStore[STORAGE_KEYS.BIZDASH_AUTH]
              IN  /\ accessToken' = IF googleToken # Null THEN googleToken.accessToken
                                    ELSE accessToken
                  /\ apiBaseUrl' = IF bizdashAuth # Null THEN bizdashAuth.apiUrl
                                   ELSE apiBaseUrl
                  /\ authToken' = IF bizdashAuth # Null THEN configureApi("stored-token")
                                  ELSE authToken
                  /\ currentAuthState' = updateAuthState(currentAuthState,
                         [google |-> googleToken, bizdash |-> bizdashAuth])
                  /\ init' = [pc |-> "done", outcome |-> "loaded"]
         ELSE /\ init' = [pc |-> "done", outcome |-> "failed"]
              /\ UNCHANGED memVars
    /\ UNCHANGED <<storeVars, now, restarts, tasks, last, opCount, netVars, pageVars, notifications>>

\* initializeAuth after its Promise.all of the two getFromStorage calls
InitializeAuth ==
    /\ init.pc = "read"
    /\ \E ok \in BOOLEAN :
         IF ok
         THEN LET googleToken == localStore[STORAGE_KEYS.GOOGLE_TOKEN]
                  bizdashAuth == localStore[STORAGE_KEYS.BIZDASH_AUTH]
              IN  /\ accessToken' = IF googleToken # Null THEN googleToken.accessToken
                                    ELSE accessToken
                  /\ apiBaseUrl' = IF bizdashAuth # Null THEN bizdashAuth.apiUrl
                                   ELSE apiBaseUrl
                  /\ authToken' = IF bizdashAuth # Null THEN configureApi("stored-token")
                                  ELSE authToken
                  /\ currentAuthState' = updateAuthState(currentAuthState,
                         [google |-> googleToken, bizdash |-> bizdashAuth])
                  /\ init' = [pc |-> "done", outcome |-> "loaded"]
         ELSE /\ init' = [pc |-> "done", outcome |-> "failed"]
              /\ UNCHANGED memVars
    /\ UNCHANGED <<storeVars, now, restarts, tasks, last, opCount, netVars, pageVars, notifications>>

\* the host tears the idle worker down and starts it again: the modules' top
\* level runs anew, storage is kept
Restart ==
    /\ restarts < MaxRestarts
    /\ init.pc = "done"
    /\ \A s \in Slots : ~InFlight(s)
    /\ restarts' = restarts + 1
    /\ currentAuthState' = DEFAULT_AUTH_STATE
    /\ accessToken' = NullToken
    /\ apiBaseUrl' = DefaultApiUrl
    /\ authToken' = NullToken
    /\ tasks' = [s \in Slots |-> IdleTask]
    /\ last' = NoCall
    /\ init' = InitStarted
    /\ UNCHANGED <<storeVars, now, opCount, netVars, pageVars, notifications>>

Tick ==
    /\ now < MaxTicks * TickMs
    /\ now' = now + TickMs
    /\ UNCHANGED <<memVars, storeVars, init, restarts, tasks, last, opCount, netVars,
                   pageVars, notifications, menuVars>>

----------------------------------------------------------------------------
(* lib/gmail-api *)

GmailOps == {"getMessage", "getThread", "getCurrentUserEmail"}

\* the token has passed the expiry recorded for it
Expired(token) ==
    /\ currentAuthState.google # Null
    /\ currentAuthState.google.accessToken = token
    /\ now > currentAuthState.google.expiresAt

\* gmailRequest up to its fetch
gmailRequest(s, op) ==
    IF accessToken = NullToken
    THEN /\ Immediate(NewTask(op, "start", Null, Null),
                Rejected(Err("Gmail API not configured - missing access token", "")))
         /\ UNCHANGED gmailSent
    ELSE /\ Begin(s, NewTask(op, "gmailFetch", Null, [bearer |-> accessToken]))
         /\ gmailSent' = [bearer |-> accessToken, expired |-> Expired(accessToken)]

StartGmailCall(s, op) ==
    /\ CanStart(s)
    /\ op \in GmailOps
    /\ gmailRequest(s, op)
    /\ UNCHANGED <<memVars, storeVars, envVars, crmLogged, posts, logSuccess, acked>>

GmailResponse(s) ==
    /\ tasks[s].pc = "gmailFetch"
    /\ \E ok \in BOOLEAN :
         Settle(s, IF ok THEN Resolved([from |-> tasks[s].op])
                   ELSE Rejected(Err("Gmail API error", "status")))
    /\ UNCHANGED <<memVars, storeVars, envVars, opCount, netVars>>

----------------------------------------------------------------------------
(* lib/gmail-api: address parsing.  A string is a sequence of characters. *)

Quote == "\""

\* String.prototype.toLowerCase, on the letters used
LowerCase(c) == IF c = "A" THEN "a" ELSE IF c = "B" THEN "b" ELSE c
toLowerCase(str) == [i \in 1..Len(str) |-> LowerCase(str[i])]

\* String.prototype.trim
RECURSIVE trimStart(_)
trimStart(str) ==
    IF str # <<>> /\ str[1] = " " THEN trimStart(Tail(str)) ELSE str
RECURSIVE trimEnd(_)
trimEnd(str) ==
    IF str # <<>> /\ str[Len(str)] = " "
    THEN trimEnd(SubSeq(str, 1, Len(str) - 1)) ELSE str
trim(str) == trimEnd(trimStart(str))

\* [^>]+@[^>]+
AddressPart(e) ==
    /\ \A i \in 1..Len(e) : e[i] # ">"
    /\ \E i \in 2..(Len(e) - 1) : e[i] = "@"

\* >?$ after [^>]+ : a final ">" can only be matched by >?
ClosingLen(raw) == IF raw # <<>> /\ raw[Len(raw)] = ">" THEN 1 ELSE 0

\* The ways  (?:"?([^"]*)"?\s)<?([^>]+@[^>]+)>?$  matches raw from its start:
\* q1, q2 and lt tell whether each optional character is taken, k is the
\* length of group 1.
GroupMatches(raw) ==
    {m \in [q1 : 0..1, k : 0..Len(raw), q2 : 0..1, lt : 0..1] :
        LET w == m.q1 + m.k + m.q2 + 1 IN
        /\ w <= Len(raw)
        /\ m.q1 = 1 => raw[1] = Quote
        /\ \A i \in (m.q1 + 1)..(m.q1 + m.k) : raw[i] # Quote
        /\ m.q2 = 1 => raw[m.q1 + m.k + 1] = Quote
        /\ raw[w] = " "
        /\ m.lt = 1 => (w + 1 <= Len(raw) /\ raw[w + 1] = "<")
        /\ AddressPart(SubSeq(raw, w + m.lt + 1, Len(raw) - ClosingLen(raw)))}

\* the order in which a backtracking matcher with greedy quantifiers tries them
MatchRank(raw, m) == ((m.q1 * (Len(raw) + 1) + m.k) * 2 + m.q2) * 2 + m.lt

\* the ways  <?([^>]+@[^>]+)>?$  matches raw from its start (group 1 skipped)
BareMatches(raw) ==
    {lt \in 0..1 :
        /\ lt = 1 => (raw # <<>> /\ raw[1] = "<")
        /\ AddressPart(SubSeq(raw, lt + 1, Len(raw) - ClosingLen(raw)))}

Undefined == <<"undefined">>
NoMatch == [matched |-> FALSE]

\* raw.match(/^(?:"?([^"]*)"?\s)?<?([^>]+@[^>]+)>?$/): groups 1 and 2 of the
\* first match found
AddressMatch(raw) ==
    IF GroupMatches(raw) # {}
    THEN LET m == CHOOSE m \in GroupMatches(raw) :
                    \A o \in GroupMatches(raw) : MatchRank(raw, o) <= MatchRank(raw, m)
         IN  [matched |-> TRUE,
              g1 |-> <<SubSeq(raw, m.q1 + 1, m.q1 + m.k)>>,
              g2 |-> SubSeq(raw, m.q1 + m.k + m.q2 + 1 + m.lt + 1,
                            Len(raw) - ClosingLen(raw))]
    ELSE IF BareMatches(raw) # {}
    THEN LET lt == CHOOSE lt \in BareMatches(raw) : \A o \in BareMatches(raw) : o <= lt
         IN  [matched |-> TRUE, g1 |-> <<>>,
              g2 |-> SubSeq(raw, lt + 1, Len(raw) - ClosingLen(raw))]
    ELSE NoMatch

\* a parser that keeps the case of the address
parseEmailAddressKeepCase(raw) ==
    LET match == AddressMatch(raw) IN
    IF match.matched
    THEN [name  |-> IF match.g1 # <<>> /\ trim(match.g1[1]) # <<>>
                    THEN trim(match.g1[1]) ELSE Undefined,
          email |-> trim(match.g2)]
    ELSE [email |-> trim(raw)]

parseEmailAddress(raw) ==
    LET match == AddressMatch(raw) IN
    IF match.matched
    THEN [name  |-> IF match.g1 # <<>> /\ trim(match.g1[1]) # <<>>
                    THEN trim(match.g1[1]) ELSE Undefined,
          email |-> toLowerCase(trim(match.g2))]
    ELSE [email |-> toLowerCase(trim(raw))]

\* a split at every comma
RECURSIVE splitAtEveryComma(_, _, _, _)
splitAtEveryComma(raw, current, inQuotes, addresses) ==
    IF raw = <<>>
    THEN IF trim(current) # <<>> THEN Append(addresses, trim(current)) ELSE addresses
    ELSE IF Head(raw) = ","
         THEN splitAtEveryComma(Tail(raw), <<>>, inQuotes,
                  IF trim(current) # <<>> THEN Append(addresses, trim(current))
                  ELSE addresses)
         ELSE splitAtEveryComma(Tail(raw), Append(current, Head(raw)), inQuotes, addresses)

\* the loop of parseEmailAddresses over the characters left in raw
RECURSIVE splitAddresses(_, _, _, _)
splitAddresses(raw, current, inQuotes, addresses) ==
    IF raw = <<>>
    THEN IF trim(current) # <<>> THEN Append(addresses, trim(current)) ELSE addresses
    ELSE LET char == Head(raw)
             quoted == IF char = Quote THEN ~inQuotes ELSE inQuotes
         IN  IF char = "," /\ ~quoted
             THEN splitAddresses(Tail(raw), <<>>, quoted,
                      IF trim(current) # <<>> THEN Append(addresses, trim(current))
                      ELSE addresses)
             ELSE splitAddresses(Tail(raw), Append(current, char), quoted, addresses)

parseEmailAddresses(raw) ==
    IF raw = <<>> THEN <<>>
    ELSE LET addresses == splitAddresses(raw, <<>>, FALSE, <<>>)
         IN  [i \in 1..Len(addresses) |-> parseEmailAddress(addresses[i])]

\* the strings of at most n characters of S
StringsUpTo(S, n) == UNION {[1..k -> S] : k \in 0..n}

\* display names: no quote inside, no blank at either end, not empty
NameChars == {"a", "B", " ", ",", "@", "<", ">"}
Names ==
    {n \in StringsUpTo(NameChars, MaxNameLen) :
        n # <<>> /\ n[1] # " " /\ n[Len(n)] # " "}

\* addresses local@domain
PartChars == {"a", "B", "."}
Parts == StringsUpTo(PartChars, MaxPartLen) \ {<<>>}
Emails == {l \o <<"@">> \o d : l \in Parts, d \in Parts}

\* "Name" <email>, and the bare address
AddressInputs ==
    {[form |-> "quoted", name |-> n, email |-> e,
      raw |-> <<Quote>> \o n \o <<Quote, " ", "<">> \o e \o <<">">>] :
        n \in Names, e \in Emails}
    \cup {[form |-> "bare", name |-> <<>>, email |-> e, raw |-> e] : e \in Emails}

\* "a, B" <a@b>, B@a
ExampleHeader ==
    <<Quote, "a", ",", " ", "B", Quote, " ", "<", "a", "@", "b", ">", ",", " ",
      "B", "@", "a">>

\* header values whose quotes are balanced
HeaderChars == {"a", Quote, ",", " "}
BalancedQuotes(raw) == Cardinality({i \in 1..Len(raw) : raw[i] = Quote}) % 2 = 0
HeaderInputs ==
    {h \in StringsUpTo(HeaderChars, MaxHeaderLen) : BalancedQuotes(h)}
    \cup {ExampleHeader}

\* a pure function is called once per behaviour: its result does not depend
\* on the calls made before
ParseAddressCall ==
    /\ opCount = 0
    /\ \E input \in AddressInputs :
         Immediate(NewTask("parseEmailAddress", "start", input, Null),
                   Resolved(parseEmailAddress(input.raw)))
    /\ UNCHANGED <<memVars, storeVars, envVars, netVars>>

ParseAddressesCall ==
    /\ opCount = 0
    /\ \E raw \in HeaderInputs :
         Immediate(NewTask("parseEmailAddresses", "start", [raw |-> raw], Null),
                   Resolved(parseEmailAddresses(raw)))
    /\ UNCHANGED <<memVars, storeVars, envVars, netVars>>

----------------------------------------------------------------------------
(* content/gmail-integration.tsx: the injected button, and the DOM extractor *)

\* the messages the page can show: the data-message-id of the container and
\* the element carrying the sender's email attribute (Null: no such element);
\* its name and text are character sequences
DomEmails ==
    {[messageId |-> "m1",
      sender |-> [email |-> "j@x.com", name |-> <<"J", "o">>, text |-> <<"J", "o">>]],
     [messageId |-> "m2",
      sender |-> [email |-> "k@y.com", name |-> <<>>, text |-> <<" ", "K", " ">>]],
     [messageId |-> "", sender |-> Null]}

\* an extractor that makes up a record when no message is open
extractEmailFromDOMAlways(page) ==
    LET messageId == IF page = Null \/ page.messageId = ""
                     THEN "dom-" \o ToString(now) ELSE page.messageId
        fromEl == IF page = Null THEN Null ELSE page.sender
    IN  [messageId |-> messageId, threadId |-> messageId,
         from |-> IF fromEl = Null THEN [email |-> "", name |-> <<>>]
                  ELSE [email |-> fromEl.email,
                        name |-> IF fromEl.name # <<>> THEN fromEl.name
                                 ELSE trim(fromEl.text)]]

\* extractEmailFromDOM: null without a [data-message-id] container, else the
\* record read from the page (subject, snippet and date are carried along
\* unread and left out)
extractEmailFromDOM(page) ==
    IF page = Null THEN Null
    ELSE LET messageId == IF page.messageId = "" THEN "dom-" \o ToString(now)
                          ELSE page.messageId
             fromEl == page.sender
         IN  [messageId |-> messageId, threadId |-> messageId,
              from |-> IF fromEl = Null THEN [email |-> "", name |-> <<>>]
                       ELSE [email |-> fromEl.email,
                             name |-> IF fromEl.name # <<>> THEN fromEl.name
                                      ELSE trim(fromEl.text)]]

\* the popup before it is opened
ClosedPopup ==
    [kind |-> "closed", viewState |-> "loading", authState |-> Null, pc |-> "closed",
     call |-> 0, auth |-> "none", clicks |-> 0]

\* useState initial values; call is the coordinator slot of the LOG_EMAIL the
\* component is waiting for (0: none), email the record it extracted
InitialUi ==
    [isLogging |-> FALSE, isLogged |-> FALSE, matchedCustomer |-> Null,
     currentEmailId |-> NullToken, call |-> 0, email |-> Null, alert |-> Null]

\* a button that never names the customer
LogToCRMButtonPlain(props) ==
    IF props.isLogged
    THEN [element |-> "div", text |-> "Logged to CRM", customer |-> <<>>]
    ELSE [element |-> "button", customer |-> <<>>,
          text |-> IF props.isLogging THEN "Logging..." ELSE "Log to CRM"]

\* LogToCRMButton: what is rendered for the component's state; customer is
\* the name shown in brackets, if one is shown
LogToCRMButton(props) ==
    IF props.isLogged
    THEN [element |-> "div", text |-> "Logged to CRM",
          customer |-> IF props.matchedCustomer # Null
                       THEN <<props.matchedCustomer.name>> ELSE <<>>]
    ELSE [element |-> "button", customer |-> <<>>,
          text |-> IF props.isLogging THEN "Logging..." ELSE "Log to CRM"]

\* the button can be clicked: it is rendered as a button and not disabled
Clickable == ~ui.isLogged /\ ~ui.isLogging

\* handleLogEmail: the EmailLogRequest built from the extracted record
LogRequest(email) ==
    [gmailMessageId |-> email.messageId, gmailThreadId |-> email.threadId,
     fromEmail |-> email.from.email, fromName |-> email.from.name]

\* handleLogEmail after its await of the LOG_EMAIL response
handleLogEmailResumed(state, response) ==
    IF ~response.success
    THEN [state EXCEPT !.alert = [failed |-> response.error],
                       !.isLogging = FALSE, !.call = 0]
    ELSE [state EXCEPT !.isLogged = TRUE,
                       !.matchedCustomer = IF response.data.customer # Null
                                           THEN response.data.customer ELSE @,
                       !.isLogging = FALSE, !.call = 0]

----------------------------------------------------------------------------
(* content/gmail-integration.tsx: the context menu of the inbox rows *)

\* the div[role="menu"] elements Gmail puts in the page, in document order,
\* each with the words of its text
GmailMenus == <<{"archive", "reply"}, {"delete", "forward"}, {"settings"}>>
MenuIds == 1..Len(GmailMenus)
NoMenu == [inDom |-> FALSE, visible |-> FALSE, items |-> 0]

isEmailContextMenu(menuText) ==
    /\ "archive" \in menuText \/ "delete" \in menuText
    /\ "reply" \in menuText \/ "mark as" \in menuText \/ "forward" \in menuText

\* the first menu that passes every check of the loop with these checks
FirstMenu(found) == CHOOSE m \in found : \A other \in found : m <= other

injectIntoGmailMenuAgain(ms) ==
    LET found == {m \in MenuIds : /\ ms[m].inDom
                                  /\ ms[m].visible
                                  /\ isEmailContextMenu(GmailMenus[m])}
    IN  IF found = {} THEN [menus |-> ms, injected |-> FALSE]
        ELSE [menus |-> [ms EXCEPT ![FirstMenu(found)].items = @ + 1],
              injected |-> TRUE]

\* injectIntoGmailMenu: the menus after the call, and what it returns
injectIntoGmailMenu(ms) ==
    LET found == {m \in MenuIds : /\ ms[m].inDom
                                  /\ ms[m].visible
                                  /\ ms[m].items = 0
                                  /\ isEmailContextMenu(GmailMenus[m])}
    IN  IF found = {} THEN [menus |-> ms, injected |-> FALSE]
        ELSE [menus |-> [ms EXCEPT ![FirstMenu(found)].items = @ + 1],
              injected |-> TRUE]

\* the rows of the inbox: the thread id of the row's link ("" when the link
\* has none) and the email attribute of its sender element ("" without one)
InboxRows ==
    {[threadId |-> "m1", email |-> "j@x.com"],
     [threadId |-> "m2", email |-> ""],
     [threadId |-> "", email |-> "k@y.com"]}

\* extractEmailFromRow; Math.random() adds nothing that the clock does not
extractEmailFromRow(row) ==
    LET threadId == IF row.threadId = "" THEN "row-" \o ToString(now)
                    ELSE row.threadId
    IN  [messageId |-> threadId, threadId |-> threadId,
         from |-> [email |-> row.email, name |-> <<>>]]

\* watchForGmailMenu: the delays of its timers; the last one disconnects the
\* observer, the others call injectIntoGmailMenu
WatchTimers == <<50, 100, 200, 500>>
Disconnects(delay) == delay = WatchTimers[Len(WatchTimers)]

NoPress == [phase |-> "none", sent |-> 0, toast |-> "none", closing |-> 0]

----------------------------------------------------------------------------
(* The auth manager, called directly *)

Init ==
    /\ currentAuthState = DEFAULT_AUTH_STATE
    /\ accessToken = NullToken
    /\ apiBaseUrl = DefaultApiUrl
    /\ authToken = NullToken
    /\ localStore = [k \in {STORAGE_KEYS.GOOGLE_TOKEN, STORAGE_KEYS.BIZDASH_AUTH} |-> Null]
    /\ syncSettings = Null
    /\ sessionEmail = Null
    /\ now = 0
    /\ init = InitStarted
    /\ tasks = [s \in Slots |-> IdleTask]
    /\ last = NoCall
    /\ opCount = 0
    /\ restarts = 0
    /\ crmLogged = {}
    /\ posts = Null
    /\ gmailSent = Null
    /\ logSuccess = [id \in MessageIds |-> 0]
    /\ acked = {}
    /\ dom = Null
    /\ ui = InitialUi
    /\ notifications = <<>>
    /\ popup = ClosedPopup
    /\ menus = [m \in MenuIds |-> NoMenu]
    /\ watchers = <<>>
    /\ clickedEmailRow = Null
    /\ press = NoPress

AuthNext ==
    \/ InitializeAuth
    \/ Restart
    \/ \E s \in Slots : StartAuthenticateGoogle(s, "authenticateGoogle")
    \/ \E s \in Slots : ConsentCallback(s)
    \/ \E s \in Slots : StartRefreshGoogleToken(s)
    \/ \E s \in Slots : SilentCallback(s)
    \/ \E s \in Slots : SaveGoogleToken(s)
    \/ \E s \in Slots : StartRevokeGoogleToken(s)
    \/ \E s \in Slots : UncacheCallback(s)
    \/ \E s \in Slots : RevokeFetchDone(s)
    \/ \E s \in Slots : RemoveGoogleToken(s)
    \/ \E s \in Slots, u \in Urls, k \in ApiKeys :
           StartAuthenticateBizDash(s, "authenticateBizDash", u, k)
    \/ \E s \in Slots : ProbeDone(s)
    \/ \E s \in Slots : SaveBizDashAuth(s)
    \/ \E s \in Slots : StartSignOutBizDash(s)
    \/ \E s \in Slots : RemoveBizDashAuth(s)
    \/ \E s, r \in Slots : StartSignOutAll(s, r)

AuthSpec == Init /\ [][AuthNext]_vars

----------------------------------------------------------------------------
(* Resume: what a restarted worker loads from storage *)

ResumeNext ==
    \/ InitializeAuth
    \/ Restart
    \/ Tick
    \/ \E s \in Slots : StartAuthenticateGoogle(s, "authenticateGoogle")
    \/ \E s \in Slots : ConsentCallback(s)
    \/ \E s \in Slots : SaveGoogleToken(s)
    \/ \E s \in Slots, u \in Urls, k \in ApiKeys :
           StartAuthenticateBizDash(s, "authenticateBizDash", u, k)
    \/ \E s \in Slots : ProbeDone(s)
    \/ \E s \in Slots : SaveBizDashAuth(s)

ResumeSpec == Init /\ [][ResumeNext]_vars

----------------------------------------------------------------------------
(* The Gmail client and the Google token over time *)

GmailNext ==
    \/ InitializeAuth
    \/ Restart
    \/ Tick
    \/ \E s \in Slots : StartAuthenticateGoogle(s, "authenticateGoogle")
    \/ \E s \in Slots : ConsentCallback(s)
    \/ \E s \in Slots : StartRefreshGoogleToken(s)
    \/ \E s \in Slots : SilentCallback(s)
    \/ \E s \in Slots : SaveGoogleToken(s)
    \/ \E s \in Slots : StartRevokeGoogleToken(s)
    \/ \E s \in Slots : UncacheCallback(s)
    \/ \E s \in Slots : RevokeFetchDone(s)
    \/ \E s \in Slots : RemoveGoogleToken(s)
    \/ \E s \in Slots, op \in GmailOps : StartGmailCall(s, op)
    \/ \E s \in Slots : GmailResponse(s)

GmailSpec == Init /\ [][GmailNext]_vars

----------------------------------------------------------------------------
(* lib/api: the CRM client, and the CRM backend it talks to *)

\* the contacts the backend holds, by email address
Contacts == [email \in {"j@x.com"} |-> [id |-> "c1", name |-> "John Smith"]]

\* The backend's answer to POST /emails: a conflict for a gmailMessageId it
\* already holds, else the new activity record, matched to the contact whose
\* address is the request's fromEmail.  Both URLs reach this backend.
BackendLogEmail(request) ==
    LET id == request.gmailMessageId
        known == "fromEmail" \in DOMAIN request /\ request.fromEmail \in DOMAIN Contacts
    IN  IF id \in crmLogged
        THEN [status |-> 409, body |-> [conflict |-> id]]
        ELSE [status |-> 201,
              body |-> [id |-> id, matched |-> known,
                        customer |-> IF known THEN Contacts[request.fromEmail] ELSE Null]]

ResponseOk(status) == status >= 200 /\ status <= 299

\* a response whose body cannot be read (response.text() / response.json() rejects)
Unreadable == [unreadable |-> TRUE]
\* no response: fetch threw
NoResponse == [status |-> 0, body |-> Unreadable]

\* await response.text().catch(() => 'Unknown error')
ResponseText(response) ==
    IF response.body = Unreadable THEN [text |-> "Unknown error"] ELSE response.body

\* apiRequest without its response.ok check
apiRequestUnchecked(response) == Resolved(response.body)

\* apiRequest after its fetch: throw on a non-2xx status, else the JSON body
apiRequest(response) ==
    IF ~ResponseOk(response.status)
    THEN Rejected(Err("BizDash API error", <<response.status, ResponseText(response)>>))
    ELSE IF response.body = Unreadable
    THEN Rejected(Err("SyntaxError", ""))
    ELSE Resolved(response.body)

TransportError == Rejected(Err("Failed to fetch", ""))

CurrentSettingsUrl ==
    IF syncSettings = Null THEN DefaultApiUrl ELSE syncSettings.bizdashApiUrl

\* the operations built on apiRequest, called directly
ApiOps == {"searchContactByEmail", "listCustomers", "getCustomer", "logEmail",
           "getContactEmails"}
LogOps == {"LOG_EMAIL", "logEmail"}
CrmGetOps == {"SEARCH_CONTACT", "isEmailLogged"} \cup (ApiOps \ {"logEmail"})

\* what reaches the client for a request: the backend's answer, an answer of
\* a failing server or proxy, an answer whose body breaks off, or nothing
FetchOutcomes == {"served", "unavailable", "unreadable", "garbled", "transport"}

\* The backend's answer to a GET of the client
BackendGet(op, arg) ==
    IF op = "isEmailLogged"
    THEN [status |-> 200, body |-> [exists |-> arg.gmailMessageId \in crmLogged]]
    ELSE IF op \in {"SEARCH_CONTACT", "searchContactByEmail"}
    THEN [status |-> 200, body |-> [contact |-> Null]]
    ELSE IF op = "listCustomers"
    THEN [status |-> 200, body |-> [customers |-> <<>>, total |-> 0]]
    ELSE IF op = "getCustomer"
    THEN [status |-> 404, body |-> [text |-> "Customer not found"]]
    ELSE [status |-> 200, body |-> [emails |-> <<>>]]

\* the response fetch resolves with (NoResponse: fetch throws)
FetchResult(outcome, served) ==
    IF outcome = "served" THEN served
    ELSE IF outcome = "unavailable"
    THEN [status |-> 503, body |-> [text |-> "Service Unavailable"]]
    ELSE IF outcome = "unreadable" THEN [status |-> 500, body |-> Unreadable]
    ELSE IF outcome = "garbled" THEN [status |-> 200, body |-> Unreadable]
    ELSE NoResponse

\* apiRequest from its fetch on
ApiResult(response) ==
    IF response = NoResponse THEN TransportError ELSE apiRequest(response)

\* isEmailLogged with no try/catch
isEmailLoggedUncaught(result) ==
    IF result.state = "rejected" THEN result ELSE Resolved(result.data.exists)

\* isEmailLogged around its apiRequest: result.exists, or false on any throw
isEmailLogged(result) ==
    IF result.state = "rejected" THEN Resolved(FALSE) ELSE Resolved(result.data.exists)

\* logEmail -> apiRequest up to its fetch
SendLogEmail(s, op, request) ==
    /\ CanStart(s)
    /\ op \in LogOps
    /\ Begin(s, NewTask(op, "crmPost", request,
                        [url |-> apiBaseUrl, bearer |-> authToken]))
    /\ posts' = [url |-> apiBaseUrl, gmailMessageId |-> request.gmailMessageId,
                 configured |-> CurrentSettingsUrl]

\* handleMessage LOG_EMAIL, or logEmail called directly
StartLogEmail(s, op, id) ==
    /\ SendLogEmail(s, op, [gmailMessageId |-> id])
    /\ UNCHANGED <<memVars, storeVars, envVars, crmLogged, gmailSent, logSuccess, acked>>

\* the POST is served (or fails on the way) and the call settles; when the
\* message came from handleLogEmail, that call resumes with the response
LogEmailResponse(s) ==
    /\ tasks[s].pc = "crmPost"
    /\ LET id == tasks[s].arg.gmailMessageId IN
       \E outcome \in FetchOutcomes \ {"garbled"} :
         LET response == FetchResult(outcome, BackendLogEmail(tasks[s].arg))
             res == ApiResult(response)
             answer == ResponseFor(res)
         IN  /\ crmLogged' = IF outcome = "served" THEN crmLogged \cup {id}
                             ELSE crmLogged
             /\ logSuccess' = IF /\ tasks[s].op = "LOG_EMAIL"
                                 /\ answer.success
                                 /\ id \in DOMAIN logSuccess
                              THEN [logSuccess EXCEPT ![id] = @ + 1]
                              ELSE logSuccess
             /\ last' = Settled([tasks[s] EXCEPT !.loc = [url |-> tasks[s].loc.url,
                                                          response |-> response]],
                                res, s)
             /\ ui' = IF ui.call = s THEN handleLogEmailResumed(ui, answer) ELSE ui
             /\ tasks' = [tasks EXCEPT ![s] =
                            IF ui.call = s /\ answer.success
                            THEN NewTask("EMAIL_SELECTED", "sessionSet", ui.email, Null)
                            ELSE IdleTask]
    /\ UNCHANGED <<memVars, storeVars, now, init, restarts, dom, popup, notifications, menuVars,
                   opCount, posts, gmailSent, acked>>

\* a GET of the client up to its fetch: handleMessage SEARCH_CONTACT, or one
\* of the client's operations called directly
StartApiGet(s, op, arg) ==
    /\ CanStart(s)
    /\ op \in CrmGetOps
    /\ Begin(s, NewTask(op, "crmGet", arg, [url |-> apiBaseUrl, bearer |-> authToken]))
    /\ UNCHANGED <<memVars, storeVars, envVars, netVars>>

\* the GET is served (or fails on the way) and the call settles
ApiGetResponse(s) ==
    /\ tasks[s].pc = "crmGet"
    /\ \E outcome \in FetchOutcomes :
         LET response == FetchResult(outcome, BackendGet(tasks[s].op, tasks[s].arg))
             res == ApiResult(response)
         IN  SettleWith(s, [url |-> tasks[s].loc.url, response |-> response],
                        IF tasks[s].op = "isEmailLogged" THEN isEmailLogged(res)
                        ELSE res)
    /\ UNCHANGED <<memVars, storeVars, envVars, opCount, netVars>>

\* healthCheck after its fetch: response.ok, or false when fetch threw
healthCheck(response) ==
    IF response = NoResponse THEN Resolved(FALSE)
    ELSE Resolved(ResponseOk(response.status))

\* healthCheck up to its fetch of `${apiBaseUrl}/health`
StartHealthCheck(s) ==
    /\ CanStart(s)
    /\ Begin(s, NewTask("healthCheck", "healthFetch", Null,
                        [url |-> apiBaseUrl, bearer |-> authToken]))
    /\ UNCHANGED <<memVars, storeVars, envVars, netVars>>

HealthResponse(s) ==
    /\ tasks[s].pc = "healthFetch"
    /\ \E outcome \in FetchOutcomes :
         LET response == FetchResult(outcome, [status |-> 200, body |-> [status |-> "ok"]])
         IN  SettleWith(s, [url |-> tasks[s].loc.url, response |-> response],
                        healthCheck(response))
    /\ UNCHANGED <<memVars, storeVars, envVars, opCount, netVars>>

\* the placeholder client's healthCheck: no request is made, true is returned
healthCheckMock(s) ==
    /\ CanStart(s)
    /\ Immediate(NewTask("healthCheck", "start", Null,
                         [url |-> apiBaseUrl, response |-> NoResponse]),
                 Resolved(TRUE))
    /\ UNCHANGED <<memVars, storeVars, envVars, netVars>>

\* the arguments the client's GET operations are called with
ApiArgs(op) ==
    IF op = "isEmailLogged" THEN {[gmailMessageId |-> id] : id \in MessageIds}
    ELSE IF op \in {"SEARCH_CONTACT", "searchContactByEmail"} THEN {[email |-> "j@x.com"]}
    ELSE IF op = "listCustomers" THEN {[search |-> "smith"]}
    ELSE IF op = "getCustomer" THEN {[customerId |-> "c1"]}
    ELSE {[contactId |-> "c1"]}

----------------------------------------------------------------------------
(* service-worker.ts: settings, and the handlers without a library behind *)

SettingsFields ==
    {"bizdashApiUrl", "captureEmailBody", "autoMatchContacts", "showNotifications"}

DEFAULT_SETTINGS_VALUE ==
    [bizdashApiUrl |-> DefaultApiUrl, captureEmailBody |-> FALSE,
     autoMatchContacts |-> TRUE, showNotifications |-> TRUE]

\* getSettings: result.settings || DEFAULT_SETTINGS_VALUE
getSettings == IF syncSettings = Null THEN DEFAULT_SETTINGS_VALUE ELSE syncSettings

\* a merge that starts from the defaults instead of the stored record
MergeOntoDefaults(current, updates) ==
    [f \in {"bizdashApiUrl", "captureEmailBody", "autoMatchContacts",
            "showNotifications"} |->
        IF f \in DOMAIN updates THEN updates[f]
        ELSE IF f = "bizdashApiUrl" THEN "http://localhost:8000"
        ELSE f # "captureEmailBody"]

\* { ...current, ...updates }
MergeSettings(current, updates) ==
    [f \in SettingsFields |-> IF f \in DOMAIN updates THEN updates[f] ELSE current[f]]

\* the partial payloads sent
SettingsUpdates ==
    {[showNotifications |-> FALSE],
     [bizdashApiUrl |-> OtherApiUrl],
     [captureEmailBody |-> TRUE],
     [autoMatchContacts |-> FALSE, showNotifications |-> TRUE]}

StartGetSettings(s) ==
    /\ CanStart(s)
    /\ Begin(s, NewTask("GET_SETTINGS", "getSettings", Null, Null))
    /\ UNCHANGED <<memVars, storeVars, envVars, netVars>>

GetSettingsCallback(s) ==
    /\ tasks[s].pc = "getSettings"
    /\ Settle(s, Resolved(getSettings))
    /\ UNCHANGED <<memVars, storeVars, envVars, opCount, netVars>>

\* updateSettings up to its await getSettings()
StartUpdateSettings(s, updates) ==
    /\ CanStart(s)
    /\ tasks' = [r \in Slots |->
           IF r = s
           THEN NewTask("UPDATE_SETTINGS", "readSettings", updates,
                        [current |-> Null, updated |-> Null,
                         overlapped |-> \E q \in Slots : tasks[q].op = "UPDATE_SETTINGS"])
           ELSE IF tasks[r].op = "UPDATE_SETTINGS"
           THEN [tasks[r] EXCEPT !.loc.overlapped = TRUE]
           ELSE tasks[r]]
    /\ opCount' = opCount + 1
    /\ UNCHANGED last
    /\ UNCHANGED <<memVars, storeVars, envVars, netVars>>

\* the read returned: merge and start chrome.storage.sync.set
UpdateSettingsRead(s) ==
    /\ tasks[s].pc = "readSettings"
    /\ Advance(s, "writeSettings",
               [current |-> getSettings,
                updated |-> MergeSettings(getSettings, tasks[s].arg),
                overlapped |-> tasks[s].loc.overlapped])
    /\ UNCHANGED <<memVars, storeVars, envVars, opCount, netVars>>

\* a write that merges the payload into the record stored now
UpdateSettingsWriteFresh(s) ==
    /\ tasks[s].pc = "writeSettings"
    /\ syncSettings' = MergeSettings(getSettings, tasks[s].arg)
    /\ Settle(s, Resolved(MergeSettings(getSettings, tasks[s].arg)))
    /\ acked' = acked \cup {tasks[s].arg}
    /\ UNCHANGED <<memVars, localStore, sessionEmail, envVars, opCount, crmLogged,
                   posts, gmailSent, logSuccess>>

\* the write returned: resolve(updated)
UpdateSettingsWrite(s) ==
    /\ tasks[s].pc = "writeSettings"
    /\ syncSettings' = tasks[s].loc.updated
    /\ Settle(s, Resolved(tasks[s].loc.updated))
    /\ acked' = acked \cup {tasks[s].arg}
    /\ UNCHANGED <<memVars, localStore, sessionEmail, envVars, opCount, crmLogged,
                   posts, gmailSent, logSuccess>>

\* handleMessage GET_AUTH_STATE: no await
HandleGetAuthState(s) ==
    /\ CanStart(s)
    /\ Immediate(NewTask("GET_AUTH_STATE", "start", Null, Null), Resolved(getAuthState))
    /\ UNCHANGED <<memVars, storeVars, envVars, netVars>>

\* handleMessage EMAIL_SELECTED up to await chrome.storage.session.set
StartEmailSelected(s, id) ==
    /\ CanStart(s)
    /\ Begin(s, NewTask("EMAIL_SELECTED", "sessionSet", [messageId |-> id], Null))
    /\ UNCHANGED <<memVars, storeVars, envVars, netVars>>

EmailSelectedStored(s) ==
    /\ tasks[s].pc = "sessionSet"
    /\ \E ok \in BOOLEAN :
         IF ok
         THEN /\ sessionEmail' = tasks[s].arg
              /\ Settle(s, Resolved([stored |-> TRUE]))
         ELSE /\ Settle(s, Rejected(Err("chrome.storage.session.set failed", "")))
              /\ UNCHANGED sessionEmail
    /\ UNCHANGED <<memVars, localStore, syncSettings, envVars, opCount, netVars>>

\* handleMessage default: throw
HandleUnknown(s, type) ==
    /\ CanStart(s)
    /\ type \notin MessageTypes
    /\ Immediate(NewTask(type, "start", Null, Null),
                 Rejected(Err("Unknown message type", type)))
    /\ UNCHANGED <<memVars, storeVars, envVars, netVars>>

----------------------------------------------------------------------------
(* content/gmail-integration.tsx: the page and the button at work *)

\* the user opens another message, or closes the one that is open
Navigate ==
    /\ \E page \in DomEmails \cup {Null} :
         /\ page # dom
         /\ dom' = page
    /\ UNCHANGED <<memVars, storeVars, now, init, restarts, ui, popup, notifications, menuVars,
                   tasks, last, opCount, netVars>>

\* the value of emailEl?.getAttribute('data-message-id')
OpenEmailId == IF dom = Null THEN NoKey ELSE dom.messageId

\* checkEmailChange, run by the interval: a message id other than the one
\* remembered resets the button
checkEmailChange ==
    /\ OpenEmailId # ui.currentEmailId
    /\ ui' = [ui EXCEPT !.currentEmailId = IF OpenEmailId \in {NoKey, ""}
                                            THEN NullToken ELSE OpenEmailId,
                        !.isLogged = FALSE,
                        !.matchedCustomer = Null]
    /\ UNCHANGED <<memVars, storeVars, now, init, restarts, dom, popup, notifications, menuVars,
                   tasks, last, opCount, netVars>>

CouldNotExtract ==
    Err("Could not extract email data. Please make sure an email is open.", "")

\* handleLogEmail, from the click up to its await of the LOG_EMAIL response;
\* without an extracted record it runs to its end
handleLogEmail ==
    /\ Clickable
    /\ opCount < MaxOps
    /\ LET email == extractEmailFromDOM(dom) IN
       IF email = Null
       THEN /\ ui' = [ui EXCEPT !.alert = [failed |-> CouldNotExtract],
                                !.isLogging = FALSE]
            /\ opCount' = opCount + 1
            /\ UNCHANGED <<tasks, last, posts>>
       ELSE \E s \in Slots :
              /\ SendLogEmail(s, "LOG_EMAIL", LogRequest(email))
              /\ ui' = [ui EXCEPT !.isLogging = TRUE, !.call = s,
                                  !.email = email, !.alert = Null]
    /\ UNCHANGED <<memVars, storeVars, now, init, restarts, dom, popup, notifications, menuVars,
                   crmLogged, gmailSent, logSuccess, acked>>

\* showNotification: chrome.notifications.create.  It is exported, and no
\* handler, listener or library function calls it.
showNotification(title, message, type) ==
    Append(notifications, [title |-> title, message |-> message, type |-> type])

----------------------------------------------------------------------------
(* content/gmail-integration.tsx: the context menu at work *)

\* a childList mutation under document.body: every connected observer gets a
\* record, and its callback will run
Mutated(ws) ==
    [k \in DOMAIN ws |-> IF ws[k].observing THEN [ws[k] EXCEPT !.notified = TRUE]
                         ELSE ws[k]]

\* Gmail appends a menu element to the page
GmailShowsMenu(m) ==
    /\ ~menus[m].inDom
    /\ menus' = [menus EXCEPT ![m] = [inDom |-> TRUE, visible |-> TRUE, items |-> 0]]
    /\ watchers' = Mutated(watchers)
    /\ UNCHANGED <<memVars, storeVars, now, init, restarts, dom, ui, popup, notifications,
                   clickedEmailRow, press, tasks, last, opCount, netVars>>

\* Gmail removes a menu element, and whatever was put into it
GmailRemovesMenu(m) ==
    /\ menus[m].inDom
    /\ menus' = [menus EXCEPT ![m] = NoMenu]
    /\ watchers' = Mutated(watchers)
    /\ UNCHANGED <<memVars, storeVars, now, init, restarts, dom, ui, popup, notifications,
                   clickedEmailRow, press, tasks, last, opCount, netVars>>

\* Gmail hides a menu or shows it again: a style change, no childList mutation
GmailTogglesMenu(m) ==
    /\ menus[m].inDom
    /\ menus' = [menus EXCEPT ![m].visible = ~@]
    /\ UNCHANGED <<memVars, storeVars, now, init, restarts, dom, ui, popup, notifications,
                   watchers, clickedEmailRow, press, tasks, last, opCount, netVars>>

\* Gmail renders the list again: the row that was clicked leaves the document
GmailRendersList ==
    /\ clickedEmailRow # Null
    /\ clickedEmailRow.attached
    /\ clickedEmailRow' = [clickedEmailRow EXCEPT !.attached = FALSE]
    /\ watchers' = Mutated(watchers)
    /\ UNCHANGED <<memVars, storeVars, now, init, restarts, dom, ui, popup, notifications,
                   menus, press, tasks, last, opCount, netVars>>

\* the contextmenu listener on a row of the inbox, with watchForGmailMenu
RightClick(row) ==
    /\ Len(watchers) < MaxRightClicks
    /\ clickedEmailRow' = [row |-> row, attached |-> TRUE]
    /\ LET r == injectIntoGmailMenu(menus) IN
         /\ menus' = r.menus
         /\ watchers' =
              IF r.injected
              THEN Append(Mutated(watchers),
                          [observing |-> FALSE, notified |-> FALSE, timers |-> <<>>])
              ELSE Append(watchers,
                          [observing |-> TRUE, notified |-> FALSE, timers |-> WatchTimers])
    /\ UNCHANGED <<memVars, storeVars, now, init, restarts, dom, ui, popup, notifications,
                   press, tasks, last, opCount, netVars>>

\* the next timer of the k-th watchForGmailMenu fires
TimerFires(k) ==
    /\ k \in DOMAIN watchers
    /\ watchers[k].timers # <<>>
    /\ LET delay == Head(watchers[k].timers)
           r == injectIntoGmailMenu(menus)
           rest == [watchers EXCEPT ![k].timers = Tail(@)]
       IN  IF Disconnects(delay)
           THEN /\ watchers' = [rest EXCEPT ![k].observing = FALSE, ![k].notified = FALSE]
                /\ UNCHANGED menus
           ELSE /\ menus' = r.menus
                /\ watchers' = IF r.injected THEN Mutated(rest) ELSE rest
    /\ UNCHANGED <<memVars, storeVars, now, init, restarts, dom, ui, popup, notifications,
                   clickedEmailRow, press, tasks, last, opCount, netVars>>

\* the MutationObserver callback of the k-th watchForGmailMenu
ObserverCallback(k) ==
    /\ k \in DOMAIN watchers
    /\ watchers[k].observing
    /\ watchers[k].notified
    /\ LET r == injectIntoGmailMenu(menus) IN
         /\ menus' = r.menus
         /\ watchers' =
              IF r.injected
              THEN [Mutated(watchers) EXCEPT ![k].observing = FALSE,
                                             ![k].notified = FALSE]
              ELSE [watchers EXCEPT ![k].notified = FALSE]
    /\ UNCHANGED <<memVars, storeVars, now, init, restarts, dom, ui, popup, notifications,
                   clickedEmailRow, press, tasks, last, opCount, netVars>>

\* handleLogToCrm up to its await: the toast it shows and the request it sends
handleLogToCrm ==
    IF clickedEmailRow = Null
    THEN [toast |-> "Could not identify the email", send |-> FALSE, request |-> Null]
    ELSE IF ~clickedEmailRow.attached
    THEN [toast |-> "Email row changed", send |-> FALSE, request |-> Null]
    ELSE LET email == extractEmailFromRow(clickedEmailRow.row) IN
         IF email.from.email = ""
         THEN [toast |-> "Could not find sender email", send |-> FALSE, request |-> Null]
         ELSE [toast |-> "Logging to CRM...", send |-> TRUE, request |-> LogRequest(email)]

\* the item can be pressed: it is in a menu the page shows
ItemShown == \E m \in MenuIds : menus[m].inDom /\ menus[m].visible /\ menus[m].items > 0

\* createCrmMenuItem handleClick, the listener of both mousedown and click;
\* sent counts the LOG_EMAIL messages of the press
handleClick(phase, sentBefore) ==
    /\ opCount < MaxOps
    /\ LET call == handleLogToCrm IN
         /\ IF call.send
            THEN \E s \in Slots : SendLogEmail(s, "LOG_EMAIL", call.request)
            ELSE /\ opCount' = opCount + 1
                 /\ UNCHANGED <<tasks, last, posts>>
         /\ press' = [phase |-> phase,
                      sent |-> sentBefore + (IF call.send THEN 1 ELSE 0),
                      toast |-> call.toast,
                      closing |-> press.closing + 1]
    /\ UNCHANGED <<memVars, storeVars, now, init, restarts, dom, ui, popup, notifications,
                   menus, watchers, clickedEmailRow,
                   crmLogged, gmailSent, logSuccess, acked>>

\* the user presses the mouse button on the item
MouseDown ==
    /\ ItemShown
    /\ press.phase # "down"
    /\ handleClick("down", 0)

\* the user releases the button on the item: the click of the same press
Click ==
    /\ ItemShown
    /\ press.phase = "down"
    /\ handleClick("clicked", press.sent)

\* the button is released elsewhere, or after the menu went away: no click
Release ==
    /\ press.phase = "down"
    /\ press' = [press EXCEPT !.phase = "released"]
    /\ UNCHANGED <<memVars, storeVars, now, init, restarts, dom, ui, popup, notifications,
                   menus, watchers, clickedEmailRow, tasks, last, opCount, netVars>>

\* closeGmailMenu, run by the timer handleClick sets
closeGmailMenu ==
    /\ press.closing > 0
    /\ press' = [press EXCEPT !.closing = @ - 1]
    /\ menus' = [m \in MenuIds |-> [menus[m] EXCEPT !.visible = FALSE]]
    /\ UNCHANGED <<memVars, storeVars, now, init, restarts, dom, ui, popup, notifications,
                   watchers, clickedEmailRow, tasks, last, opCount, netVars>>

----------------------------------------------------------------------------
(* popup: the two Popup components.  "status" is the one with the loading  *)
(* flag (loading true is viewState "loading", false is "shown"), "bulk"    *)
(* the one with the viewState.                                             *)

PopupKinds == {"status", "bulk"}

\* the popup is opened: useState initial values, and the effect calls loadState
PopupOpen(kind) ==
    /\ popup.kind = "closed"
    /\ kind \in PopupKinds
    /\ popup' = [ClosedPopup EXCEPT !.kind = kind, !.pc = "loadState"]
    /\ UNCHANGED <<memVars, storeVars, now, init, restarts, dom, ui, notifications, menuVars,
                   tasks, last, opCount, netVars>>

\* loadState ends in its catch: the status popup's finally clears the flag,
\* the bulk popup shows its error view
LoadStateCaught(p) ==
    [p EXCEPT !.viewState = IF p.kind = "status" THEN "shown" ELSE "error",
              !.pc = "idle"]

\* a handler's sendMessage rejects: its catch only logs; the status popup's
\* finally clears the flag, the bulk popup has no finally
HandlerCaught(p) ==
    [p EXCEPT !.viewState = IF p.kind = "status" THEN "shown" ELSE p.viewState,
              !.pc = "idle", !.auth = "rejected"]

\* loadState: await sendMessage GET_AUTH_STATE; the coordinator answers at once
PopupGetAuthState ==
    /\ popup.pc = "loadState"
    /\ \E sent \in BOOLEAN :
         IF sent
         THEN /\ Immediate(NewTask("GET_AUTH_STATE", "start", Null, Null),
                           Resolved(getAuthState))
              /\ popup' = [popup EXCEPT !.authState = getAuthState,
                                        !.pc = IF popup.kind = "status" THEN "session"
                                               ELSE "tabs"]
         ELSE /\ popup' = LoadStateCaught(popup)
              /\ UNCHANGED <<tasks, last, opCount>>
    /\ UNCHANGED <<memVars, storeVars, now, init, restarts, dom, ui, notifications, menuVars,
                   netVars>>

\* status popup: await chrome.storage.session.get, then finally
PopupSessionGet ==
    /\ popup.pc = "session"
    /\ popup' = [popup EXCEPT !.viewState = "shown", !.pc = "idle"]
    /\ UNCHANGED <<memVars, storeVars, now, init, restarts, dom, ui, notifications, menuVars,
                   tasks, last, opCount, netVars>>

\* bulk popup: await chrome.tabs.query
PopupTabsQuery ==
    /\ popup.pc = "tabs"
    /\ \E outcome \in {"throws", "notGmail", "gmail"} :
         popup' = IF outcome = "throws" THEN LoadStateCaught(popup)
                  ELSE IF outcome = "notGmail"
                  THEN [popup EXCEPT !.viewState = "not_gmail", !.pc = "idle"]
                  ELSE [popup EXCEPT !.pc = "emails"]
    /\ UNCHANGED <<memVars, storeVars, now, init, restarts, dom, ui, notifications, menuVars,
                   tasks, last, opCount, netVars>>

\* bulk popup: await chrome.tabs.sendMessage GET_SELECTED_EMAILS, in its own try
PopupSelectedEmails ==
    /\ popup.pc = "emails"
    /\ \E view \in {"ready", "no_selection"} :
         popup' = [popup EXCEPT !.viewState = view, !.pc = "idle"]
    /\ UNCHANGED <<memVars, storeVars, now, init, restarts, dom, ui, notifications, menuVars,
                   tasks, last, opCount, netVars>>

\* the connect buttons are rendered
ShowsConnect(p) ==
    /\ p.viewState \notin {"loading", "not_gmail"}
    /\ IF p.authState = Null THEN TRUE ELSE ~p.authState.isFullyAuthenticated
ShowsConnectGoogle(p) ==
    /\ ShowsConnect(p)
    /\ IF p.authState = Null THEN TRUE ELSE p.authState.google = Null
ShowsConnectBizDash(p) ==
    /\ ShowsConnect(p)
    /\ IF p.authState = Null THEN FALSE
       ELSE /\ p.authState.google # Null
            /\ IF p.authState.bizdash = Null THEN TRUE
               ELSE ~p.authState.bizdash.isAuthenticated

\* a handler starts: the loading view, and its first sendMessage
PopupSend(type, pc, task) ==
    /\ popup.pc = "idle"
    /\ popup.clicks < MaxClicks
    /\ \E sent \in BOOLEAN :
         IF sent
         THEN \E s \in Slots :
                /\ FirstFree(s)
                /\ Begin(s, task)
                /\ popup' = [popup EXCEPT !.viewState = "loading", !.pc = pc,
                                          !.call = s, !.auth = "pending",
                                          !.clicks = @ + 1]
         ELSE /\ popup' = HandlerCaught([popup EXCEPT !.viewState = "loading",
                                                      !.clicks = @ + 1])
              /\ UNCHANGED <<tasks, last, opCount>>
    /\ UNCHANGED <<memVars, storeVars, now, init, restarts, dom, ui, notifications, menuVars,
                   netVars>>

\* handleConnectGoogle up to its await of the AUTHENTICATE_GOOGLE response
handleConnectGoogle ==
    /\ ShowsConnectGoogle(popup)
    /\ PopupSend("AUTHENTICATE_GOOGLE", "authenticate",
                 NewTask("AUTHENTICATE_GOOGLE", "consent", Null, Null))

\* handleConnectBizDash up to its await of the GET_SETTINGS response
handleConnectBizDash ==
    /\ ShowsConnectBizDash(popup)
    /\ PopupSend("GET_SETTINGS", "settings",
                 NewTask("GET_SETTINGS", "getSettings", Null, Null))

\* handleConnectBizDash resumes with the settings and sends AUTHENTICATE_BIZDASH
PopupSettingsAnswered ==
    /\ popup.pc = "settings"
    /\ Free(popup.call)
    /\ last.op = "GET_SETTINGS"
    /\ LET apiUrl == IF last.resp[1].success THEN last.resp[1].data.bizdashApiUrl
                     ELSE "http://localhost:8000"
       IN  \E sent \in BOOLEAN :
             IF sent
             THEN \E s \in Slots :
                    /\ FirstFree(s)
                    /\ Begin(s, NewTask("AUTHENTICATE_BIZDASH", "probe",
                                        [apiUrl |-> apiUrl, apiKey |-> NoKey],
                                        [probed |-> <<apiUrl, "/health">>]))
                    /\ popup' = [popup EXCEPT !.pc = "authenticate", !.call = s]
             ELSE /\ popup' = HandlerCaught(popup)
                  /\ UNCHANGED <<tasks, last, opCount>>
    /\ UNCHANGED <<memVars, storeVars, now, init, restarts, dom, ui, notifications, menuVars,
                   netVars>>

\* a handler resumes with the AUTHENTICATE_ response, which it does not look
\* at, and calls loadState
PopupAuthAnswered ==
    /\ popup.pc = "authenticate"
    /\ Free(popup.call)
    /\ last.op \in {"AUTHENTICATE_GOOGLE", "AUTHENTICATE_BIZDASH"}
    /\ popup' = [popup EXCEPT !.auth = IF last.resp[1].success THEN "ok" ELSE "failed",
                              !.pc = "loadState"]
    /\ UNCHANGED <<memVars, storeVars, now, init, restarts, dom, ui, notifications, menuVars,
                   tasks, last, opCount, netVars>>

----------------------------------------------------------------------------
(* The settings store *)

SettingsNext ==
    \/ InitializeAuth
    \/ Restart
    \/ \E s \in Slots : StartGetSettings(s)
    \/ \E s \in Slots : GetSettingsCallback(s)
    \/ \E s \in Slots, u \in SettingsUpdates : StartUpdateSettings(s, u)
    \/ \E s \in Slots : UpdateSettingsRead(s)
    \/ \E s \in Slots : UpdateSettingsWrite(s)

SettingsSpec == Init /\ [][SettingsNext]_vars

----------------------------------------------------------------------------
(* Logging: where the email goes *)

LogNext ==
    \/ InitializeAuth
    \/ Restart
    \/ \E s \in Slots, id \in MessageIds : StartLogEmail(s, "LOG_EMAIL", id)
    \/ \E s \in Slots : LogEmailResponse(s)
    \/ \E s \in Slots, u \in Urls : StartUpdateSettings(s, [bizdashApiUrl |-> u])
    \/ \E s \in Slots : UpdateSettingsRead(s)
    \/ \E s \in Slots : UpdateSettingsWrite(s)
    \/ \E s \in Slots :   \* the popup connects with the URL of the settings
           StartAuthenticateBizDash(s, "AUTHENTICATE_BIZDASH", CurrentSettingsUrl, NoKey)
    \/ \E s \in Slots : ProbeDone(s)
    \/ \E s \in Slots : SaveBizDashAuth(s)

LogSpec == Init /\ [][LogNext]_vars

\* the event loop runs every continuation that is ready; what the user and
\* the host do (start a call, restart the worker) may never happen
LogFairness ==
    /\ WF_vars(InitializeAuth)
    /\ \A s \in Slots :
          /\ WF_vars(LogEmailResponse(s))
          /\ WF_vars(UpdateSettingsRead(s))
          /\ WF_vars(UpdateSettingsWrite(s))
          /\ WF_vars(ProbeDone(s))
          /\ WF_vars(SaveBizDashAuth(s))

LogLiveSpec == LogSpec /\ LogFairness

----------------------------------------------------------------------------
(* The background coordinator as deployed *)

Next ==
    \/ InitializeAuth
    \/ Restart
    \/ \E s \in Slots, id \in MessageIds : StartLogEmail(s, "LOG_EMAIL", id)
    \/ \E s \in Slots : LogEmailResponse(s)
    \/ \E s \in Slots : StartApiGet(s, "SEARCH_CONTACT", [email |-> "j@x.com"])
    \/ \E s \in Slots : ApiGetResponse(s)
    \/ \E s \in Slots : HandleGetAuthState(s)
    \/ \E s \in Slots : StartAuthenticateGoogle(s, "AUTHENTICATE_GOOGLE")
    \/ \E s \in Slots : ConsentCallback(s)
    \/ \E s \in Slots : SaveGoogleToken(s)
    \/ \E s \in Slots, u \in Urls :
           StartAuthenticateBizDash(s, "AUTHENTICATE_BIZDASH", u, NoKey)
    \/ \E s \in Slots : ProbeDone(s)
    \/ \E s \in Slots : SaveBizDashAuth(s)
    \/ \E s \in Slots : StartGetSettings(s)
    \/ \E s \in Slots : GetSettingsCallback(s)
    \/ \E s \in Slots, u \in SettingsUpdates : StartUpdateSettings(s, u)
    \/ \E s \in Slots : UpdateSettingsRead(s)
    \/ \E s \in Slots : UpdateSettingsWrite(s)
    \/ \E s \in Slots, id \in MessageIds : StartEmailSelected(s, id)
    \/ \E s \in Slots : EmailSelectedStored(s)
    \/ \E s \in Slots : HandleUnknown(s, UnknownType)

Spec == Init /\ [][Next]_vars

----------------------------------------------------------------------------
(* The CRM client: every operation, called directly or through the coordinator *)

CrmNext ==
    \/ InitializeAuth
    \/ \E s \in Slots, op \in LogOps, id \in MessageIds : StartLogEmail(s, op, id)
    \/ \E s \in Slots : LogEmailResponse(s)
    \/ \E s \in Slots, op \in CrmGetOps : \E arg \in ApiArgs(op) : StartApiGet(s, op, arg)
    \/ \E s \in Slots : ApiGetResponse(s)
    \/ \E s \in Slots : StartHealthCheck(s)
    \/ \E s \in Slots : HealthResponse(s)
    \/ \E s \in Slots : healthCheckMock(s)

CrmSpec == Init /\ [][CrmNext]_vars

----------------------------------------------------------------------------
(* The address parsers *)

ParseNext ==
    \/ ParseAddressCall
    \/ ParseAddressesCall

ParseSpec == Init /\ [][ParseNext]_vars

----------------------------------------------------------------------------
(* The injected button: a click, the coordinator, the backend, and back *)

ButtonNext ==
    \/ InitializeAuth
    \/ Tick
    \/ Navigate
    \/ checkEmailChange
    \/ handleLogEmail
    \/ \E s \in Slots : LogEmailResponse(s)
    \/ \E s \in Slots : EmailSelectedStored(s)

ButtonSpec == Init /\ [][ButtonNext]_vars

----------------------------------------------------------------------------
(* The popup and the coordinator behind it *)

PopupNext ==
    \/ InitializeAuth
    \/ \E kind \in PopupKinds : PopupOpen(kind)
    \/ PopupGetAuthState
    \/ PopupSessionGet
    \/ PopupTabsQuery
    \/ PopupSelectedEmails
    \/ handleConnectGoogle
    \/ handleConnectBizDash
    \/ PopupSettingsAnswered
    \/ PopupAuthAnswered
    \/ \E s \in Slots : ConsentCallback(s)
    \/ \E s \in Slots : SaveGoogleToken(s)
    \/ \E s \in Slots : GetSettingsCallback(s)
    \/ \E s \in Slots : ProbeDone(s)
    \/ \E s \in Slots : SaveBizDashAuth(s)

PopupSpec == Init /\ [][PopupNext]_vars

\* the event loop runs every continuation that is ready and every message
\* sent is delivered; whether the user clicks is up to the user
PopupFairness ==
    /\ WF_vars(InitializeAuth)
    /\ WF_vars(PopupGetAuthState)
    /\ WF_vars(PopupSessionGet)
    /\ WF_vars(PopupTabsQuery)
    /\ WF_vars(PopupSelectedEmails)
    /\ WF_vars(PopupSettingsAnswered)
    /\ WF_vars(PopupAuthAnswered)
    /\ \A s \in Slots :
          /\ WF_vars(ConsentCallback(s))
          /\ WF_vars(SaveGoogleToken(s))
          /\ WF_vars(GetSettingsCallback(s))
          /\ WF_vars(ProbeDone(s))
          /\ WF_vars(SaveBizDashAuth(s))

PopupLiveSpec == PopupSpec /\ PopupFairness

----------------------------------------------------------------------------
(* The context menu: right-clicks, Gmail's menus and the injection attempts *)
MenuNext ==
    \/ \E m \in MenuIds : GmailShowsMenu(m)
    \/ \E m \in MenuIds : GmailRemovesMenu(m)
    \/ \E m \in MenuIds : GmailTogglesMenu(m)
    \/ GmailRendersList
    \/ \E row \in InboxRows : RightClick(row)
    \/ \E k \in 1..MaxRightClicks : TimerFires(k)
    \/ \E k \in 1..MaxRightClicks : ObserverCallback(k)

MenuSpec == Init /\ [][MenuNext]_vars

----------------------------------------------------------------------------
(* The injected menu item: its press, the coordinator and the backend *)
ItemNext ==
    \/ \E m \in MenuIds : GmailShowsMenu(m)
    \/ GmailRendersList
    \/ \E row \in InboxRows : RightClick(row)
    \/ MouseDown
    \/ Click
    \/ Release
    \/ closeGmailMenu
    \/ \E s \in Slots : LogEmailResponse(s)

ItemSpec == Init /\ [][ItemNext]_vars

----------------------------------------------------------------------------
(* Claims *)

Quiescent == init.pc = "done" /\ \A s \in Slots : tasks[s].pc = "idle"

\* C1: once every auth operation started has completed, the AuthState
\* returned by getAuthState has isFullyAuthenticated = true if and only if
\* both its google and its bizdash fields are non-null.
C1_FullyAuthenticatedIffBoth ==
    Quiescent =>
        (getAuthState.isFullyAuthenticated <=>
            (getAuthState.google # Null /\ getAuthState.bizdash # Null))

\* C2: with a backend that rejects a repeated gmailMessageId, at most one
\* LOG_EMAIL per gmailMessageId is answered {success: true}; every other one
\* is answered {success: false, error} and shown as an error toast.
C2_AtMostOneSuccessPerMessage ==
    /\ \A id \in MessageIds : logSuccess[id] <= 1
    /\ last.op = "LOG_EMAIL" =>
          /\ Len(last.resp) = 1
          /\ (last.toast = "success") <=> last.resp[1].success
          /\ (last.toast = "error") <=> ~last.resp[1].success
          /\ (last.arg.gmailMessageId \in crmLogged /\ last.res.state = "rejected")
                => last.toast = "error"

\* a repeated gmailMessageId was answered with the backend's conflict
C2_Witness ==
    /\ last.op = "LOG_EMAIL"
    /\ logSuccess[last.arg.gmailMessageId] = 1
    /\ Len(last.resp) = 1
    /\ ~last.resp[1].success
    /\ last.resp[1].error.message = "BizDash API error"
    /\ last.resp[1].error.detail = <<409, [conflict |-> last.arg.gmailMessageId]>>
    /\ last.toast = "error"

UpdateWrites(s) == tasks[s].pc = "writeSettings" /\ tasks'[s].pc = "idle"

C4_LastWriteWinsUndetected ==
    [][\A s \in Slots :
         UpdateWrites(s) =>
            /\ \A f \in SettingsFields \ DOMAIN tasks[s].arg :
                  syncSettings'[f] = tasks[s].loc.current[f]
            /\ last'.resp = <<[success |-> TRUE, data |-> syncSettings']>>]_vars

\* an update was lost: a payload was answered with success, no other answered
\* payload names its field, and the stored record does not carry its value
C4_Witness ==
    /\ \A s \in Slots : tasks[s].pc = "idle"
    /\ last.op = "UPDATE_SETTINGS" /\ last.loc.overlapped
    /\ \E u \in acked : \E f \in DOMAIN u :
          /\ syncSettings[f] # u[f]
          /\ syncSettings[f] = DEFAULT_SETTINGS_VALUE[f]
          /\ \A v \in acked \ {u} : f \notin DOMAIN v

\* C5: every message received by the coordinator gets exactly one response:
\* no handler is left unable to answer, and a settled handler has answered once.
C5_EveryMessageAnswered ==
    /\ \A s \in Slots : IsMessage(tasks[s].op) => tasks[s].pc # "hung"
    /\ IsMessage(last.op) => Len(last.resp) = 1

\* C6: every email POST goes to the bizdashApiUrl held in the settings at
\* that time.
C6_PostsGoToConfiguredUrl ==
    posts # Null => posts.url = posts.configured

ProbeFails(s) ==
    /\ tasks[s].op \in BizDashOps
    /\ tasks[s].pc = "probe"
    /\ tasks'[s].pc = "idle"

\* C7 as stated: after authenticateBizDash rejects on a failed probe, the CRM
\* track of AuthState is null.
C7_FailedProbeLeavesTrackNull ==
    (/\ last.op \in BizDashOps
     /\ last.res.state = "rejected"
     /\ last.res.error.message = "Cannot connect to BizDash at")
        => currentAuthState.bizdash = Null

\* C7 amended: authenticateBizDash(url) probes GET <url>/health before
\* accepting the URL; when the probe fails the call rejects with an error that
\* names the URL, and the AuthState, the CRM client and the stored records are
\* left as they were: the CRM track is null afterwards only if it was null
\* before.
C7_FailedProbeRejectsAndKeepsTrack ==
    [][\A s \in Slots :
         /\ (tasks[s].op \in BizDashOps /\ tasks[s].pc = "saveBizdash")
               => tasks[s].loc.apiUrl = tasks[s].arg.apiUrl
         /\ ProbeFails(s) =>
               /\ tasks[s].loc.probed = <<tasks[s].arg.apiUrl, "/health">>
               /\ last'.res = Rejected(Err("Cannot connect to BizDash at",
                                           tasks[s].arg.apiUrl))
               /\ currentAuthState' = currentAuthState
               /\ apiBaseUrl' = apiBaseUrl /\ authToken' = authToken
               /\ localStore' = localStore]_vars

\* a probe of another URL failed while the CRM track was connected
C7_Witness ==
    /\ last.op \in BizDashOps
    /\ last.res = Rejected(Err("Cannot connect to BizDash at", OtherApiUrl))
    /\ currentAuthState.bizdash # Null
    /\ currentAuthState.bizdash.apiUrl = DefaultApiUrl

\* nothing but initializeAuth has run since the last restart
Resumed ==
    /\ restarts > 0
    /\ init.pc = "done"
    /\ last = NoCall
    /\ \A s \in Slots : tasks[s].pc = "idle"

\* C8: after a restart and a completed initializeAuth the in-memory tracks
\* equal the records its reads found in local storage (null when absent), the
\* Gmail client holds the stored access token iff a token record was found,
\* and the CRM client's base URL is the stored apiUrl iff a CRM record was
\* found; an expired token is loaded like any other.
C8_ResumeLoadsWhatIsStored ==
    Resumed =>
        IF init.outcome = "loaded"
        THEN /\ currentAuthState.google = localStore[STORAGE_KEYS.GOOGLE_TOKEN]
             /\ currentAuthState.bizdash = localStore[STORAGE_KEYS.BIZDASH_AUTH]
             /\ accessToken = IF localStore[STORAGE_KEYS.GOOGLE_TOKEN] # Null
                              THEN localStore[STORAGE_KEYS.GOOGLE_TOKEN].accessToken ELSE NullToken
             /\ apiBaseUrl = IF localStore[STORAGE_KEYS.BIZDASH_AUTH] # Null
                             THEN localStore[STORAGE_KEYS.BIZDASH_AUTH].apiUrl ELSE DefaultApiUrl
        ELSE /\ currentAuthState = DEFAULT_AUTH_STATE
             /\ accessToken = NullToken
             /\ apiBaseUrl = DefaultApiUrl

\* a resumed worker holds an expired token and a CRM record
C8_Witness ==
    /\ Resumed
    /\ init.outcome = "loaded"
    /\ currentAuthState.google # Null
    /\ now > currentAuthState.google.expiresAt
    /\ accessToken = currentAuthState.google.accessToken
    /\ currentAuthState.bizdash # Null
    /\ apiBaseUrl = OtherApiUrl

\* C9 as stated: every completed revokeGoogleToken leaves the Google track
\* null in memory and the stored token record removed.
C9_RevokeAlwaysClears ==
    (last.op = "revokeGoogleToken" /\ last.res.state # "pending")
        => (currentAuthState.google = Null /\ localStore[STORAGE_KEYS.GOOGLE_TOKEN] = Null)

\* C9 amended: revokeGoogleToken resolves with the Google track null in memory
\* and the stored token record removed, also when the server-side revocation
\* request fails; it rejects only when the removal from local storage fails,
\* never because of the revocation request.
C9_RevokeClearsUnlessStorageFails ==
    last.op = "revokeGoogleToken" =>
        /\ last.res.state = "resolved" =>
              (currentAuthState.google = Null /\ localStore[STORAGE_KEYS.GOOGLE_TOKEN] = Null)
        /\ last.res.state = "rejected" =>
              last.res.error = Err("chrome.runtime.lastError", "")

\* the revocation request failed and the token was cleared all the same
C9_Witness ==
    /\ last.op = "revokeGoogleToken"
    /\ last.loc.token # NullToken
    /\ last.loc.fetchFailed
    /\ last.res.state = "resolved"
    /\ currentAuthState.google = Null
    /\ localStore[STORAGE_KEYS.GOOGLE_TOKEN] = Null

\* C10: no Gmail API request is sent with the current Google token once the
\* clock has passed its expiresAt.
C10_NoRequestWithExpiredToken ==
    gmailSent # Null => ~gmailSent.expired

\* the response was a readable 2xx answer
AnsweredOk(response) == ResponseOk(response.status) /\ response.body # Unreadable

\* C11: isEmailLogged(id) never throws: it returns false when the request
\* fails (transport error, non-2xx response, unreadable answer) and the
\* backend's exists flag otherwise.
C11_IsEmailLoggedNeverThrows ==
    last.op = "isEmailLogged" =>
        /\ last.res.state = "resolved"
        /\ last.res.data = IF AnsweredOk(last.loc.response)
                           THEN last.loc.response.body.exists ELSE FALSE

\* the request failed for an id the backend holds, and false was returned
C11_Witness ==
    /\ last.op = "isEmailLogged"
    /\ last.arg.gmailMessageId \in crmLogged
    /\ last.loc.response = NoResponse
    /\ last.res = Resolved(FALSE)

\* C12: healthCheck() never throws and returns true exactly when the GET to
\* the liveness endpoint was answered with a 2xx status.
C12_HealthCheckTrueIffGetOk ==
    last.op = "healthCheck" =>
        /\ last.res.state = "resolved"
        /\ last.res.data = ResponseOk(last.loc.response.status)

\* C13: every operation built on apiRequest raises on a non-2xx response with
\* an error that embeds the status code and the response body text (or
\* 'Unknown error' when the body cannot be read), and the coordinator relays
\* that error unchanged in its {success: false, error} response.
C13_NonOkRaisesStatusAndBody ==
    (/\ last.op \in ApiOps \cup {"LOG_EMAIL", "SEARCH_CONTACT"}
     /\ last.loc.response # NoResponse
     /\ ~ResponseOk(last.loc.response.status))
        => /\ last.res.state = "rejected"
           /\ last.res.error.message = "BizDash API error"
           /\ last.res.error.detail[1] = last.loc.response.status
           /\ last.res.error.detail[2] =
                  IF last.loc.response.body = Unreadable
                  THEN [text |-> "Unknown error"] ELSE last.loc.response.body
           /\ IsMessage(last.op) =>
                  /\ Len(last.resp) = 1
                  /\ ~last.resp[1].success
                  /\ last.resp[1].error.message = last.res.error.message
                  /\ last.resp[1].error.detail = last.res.error.detail
           /\ ~IsMessage(last.op) => last.resp = <<>>

\* a SEARCH_CONTACT met a 503 and its response carries the status and the text
C13_Witness ==
    /\ last.op = "SEARCH_CONTACT"
    /\ last.loc.response.status = 503
    /\ Len(last.resp) = 1
    /\ ~last.resp[1].success
    /\ last.resp[1].error.message = "BizDash API error"
    /\ last.resp[1].error.detail = <<503, [text |-> "Service Unavailable"]>>

\* the call in slot s resolves out of its await at pc
TrackDone(s, pc) ==
    /\ tasks[s].pc = pc
    /\ tasks'[s].pc = "idle"
    /\ last'.res.state = "resolved"

\* C14: overlapping auth operations interleaved at their awaits lose no
\* update: an operation that completes sets its own track to its result and
\* leaves the other track as the other operations made it.
C14_NoLostTrackUpdate ==
    [][\A s \in Slots :
         /\ TrackDone(s, "saveGoogle") =>
               /\ currentAuthState'.google = tasks[s].loc
               /\ currentAuthState'.bizdash = currentAuthState.bizdash
         /\ TrackDone(s, "saveBizdash") =>
               /\ currentAuthState'.bizdash = tasks[s].loc
               /\ currentAuthState'.google = currentAuthState.google
         /\ TrackDone(s, "removeGoogle") =>
               /\ currentAuthState'.google = Null
               /\ currentAuthState'.bizdash = currentAuthState.bizdash
         /\ TrackDone(s, "removeBizdash") =>
               /\ currentAuthState'.bizdash = Null
               /\ currentAuthState'.google = currentAuthState.google]_vars

\* authenticateBizDash was started while the Google operation was in flight
\* and completed after it; the AuthState carries both results
C14_Witness ==
    /\ Quiescent
    /\ opCount = 2 /\ restarts = 0
    /\ last.op = "authenticateBizDash" /\ last.slot = 2
    /\ last.res.state = "resolved"
    /\ currentAuthState.bizdash = last.res.data
    /\ currentAuthState.google # Null
    /\ currentAuthState.google = localStore[STORAGE_KEYS.GOOGLE_TOKEN]
    /\ currentAuthState.isFullyAuthenticated

\* C15: for every well-formed "Name" <email>, parseEmailAddress returns
\* name = Name (case kept) and email = the address lower-cased; for every bare
\* address it returns the lower-cased address and no name.
C15_ParsesNameAndLowercasedEmail ==
    last.op = "parseEmailAddress" =>
        LET result == last.res.data IN
        /\ result.email = toLowerCase(last.arg.email)
        /\ \A i \in 1..Len(result.email) : result.email[i] \notin {"A", "B"}
        /\ last.arg.form = "quoted" => result.name = last.arg.name
        /\ last.arg.form = "bare" =>
              ("name" \notin DOMAIN result \/ result.name = Undefined)

\* "a, B" <B.@a> gave name  a, B  and email  b.@a
C15_Witness ==
    /\ last.op = "parseEmailAddress"
    /\ last.arg.form = "quoted"
    /\ last.arg.name = <<"a", ",", "B">>
    /\ last.arg.email = <<"B", ".", "@", "a">>
    /\ last.res.data = [name |-> <<"a", ",", "B">>, email |-> <<"b", ".", "@", "a">>]

\* the commas of raw that lie outside double quotes
OutsideCommas(raw) ==
    {i \in 1..Len(raw) :
        /\ raw[i] = ","
        /\ Cardinality({j \in 1..(i - 1) : raw[j] = Quote}) % 2 = 0}

\* the segments of raw between those commas that hold a non-blank character
NonBlankSegments(raw) ==
    {b \in {0} \cup OutsideCommas(raw) :
        \E i \in (b + 1)..Len(raw) :
            /\ raw[i] # " "
            /\ \A c \in OutsideCommas(raw) : ~(b < c /\ c <= i)}

\* C16: for every header value with balanced quotes, parseEmailAddresses
\* returns as many addresses as there are non-blank segments between the
\* commas outside quotes: it never splits inside a quoted name.
C16_SplitsOnlyOutsideQuotes ==
    last.op = "parseEmailAddresses" =>
        Len(last.res.data) = Cardinality(NonBlankSegments(last.arg.raw))

\* "a, B" <a@b>, B@a  gave two addresses, the first with the name  a, B
C16_Witness ==
    /\ last.op = "parseEmailAddresses"
    /\ last.arg.raw = ExampleHeader
    /\ Len(last.res.data) = 2
    /\ last.res.data[1] = [name |-> <<"a", ",", " ", "B">>, email |-> <<"a", "@", "b">>]
    /\ last.res.data[2].email = <<"b", "@", "a">>

\* a click on the button while no message is open
ClickWithoutEmail ==
    /\ dom = Null
    /\ Clickable
    /\ opCount' = opCount + 1

\* C17: when no open-message container is present, extractEmailFromDOM
\* returns null, and handleLogEmail then sends no LOG_EMAIL message, reports
\* the failure to the user, and ends with the button neither logging nor
\* logged.
C17_NoContainerNoMessage ==
    [][ClickWithoutEmail =>
          /\ extractEmailFromDOM(dom) = Null
          /\ tasks' = tasks
          /\ posts' = posts
          /\ ui'.alert # Null
          /\ ui'.alert.failed.message = CouldNotExtract.message
          /\ ~ui'.isLogging
          /\ ~ui'.isLogged
          /\ LogToCRMButton(ui').text = "Log to CRM"]_vars

\* the button was clicked with no message open, after a message had been
\* logged from it and closed
C17_Witness ==
    /\ dom = Null
    /\ ui.alert # Null
    /\ ui.alert.failed.message = CouldNotExtract.message
    /\ crmLogged # {}
    /\ opCount >= 2
    /\ \A s \in Slots : Free(s)

\* handleLogEmail sends the message for the record it extracted
ClickWithEmail ==
    /\ dom # Null
    /\ Clickable
    /\ opCount' = opCount + 1

\* handleLogEmail resumes with a response that carries a matched customer
MatchedResponse ==
    /\ ui.call # 0
    /\ ui'.call = 0
    /\ Len(last'.resp) = 1
    /\ last'.resp[1].success
    /\ last'.resp[1].data.matched
    /\ last'.resp[1].data.customer # Null

\* C18: end to end, when the extractor yields an email record, the LOG_EMAIL
\* payload carries fromEmail equal to the record's sender email, and when the
\* backend answers with matched = true and a customer, the injected button
\* goes from logging to the logged state and displays that customer's name.
C18_PayloadAndLoggedCustomer ==
    [][/\ ClickWithEmail =>
             /\ ui'.call # 0
             /\ tasks'[ui'.call].op = "LOG_EMAIL"
             /\ tasks'[ui'.call].arg.fromEmail = extractEmailFromDOM(dom).from.email
             /\ LogToCRMButton(ui').text = "Logging..."
       /\ MatchedResponse =>
             /\ LogToCRMButton(ui).text = "Logging..."
             /\ LogToCRMButton(ui').element = "div"
             /\ LogToCRMButton(ui').text = "Logged to CRM"
             /\ LogToCRMButton(ui').customer = <<last'.resp[1].data.customer.name>>
      ]_vars

\* the message from j@x.com was logged and the button names John Smith
C18_Witness ==
    /\ last.op = "LOG_EMAIL"
    /\ last.slot # 0
    /\ last.arg.fromEmail = "j@x.com"
    /\ Len(last.resp) = 1
    /\ last.resp[1].success
    /\ ui.isLogged
    /\ LogToCRMButton(ui).customer = <<"John Smith">>

\* the worker was started again and initializeAuth found a Google token record
ResumedWithToken ==
    /\ restarts >= 1
    /\ init = [pc |-> "done", outcome |-> "loaded"]
    /\ localStore[STORAGE_KEYS.GOOGLE_TOKEN] # Null

\* nothing was called since the worker started: a refreshGoogleToken would be
\* in a slot, or be the last call settled
NoCallSinceStart ==
    /\ last.op = "none"
    /\ \A s \in Slots : Free(s)

\* C19: on resume (worker start with a Google token record in storage) a
\* silent refresh is attempted first: no Gmail API request with the stored
\* token and no interactive consent flow starts before refreshGoogleToken ran.
C19_SilentRefreshFirstOnResume ==
    [][(ResumedWithToken /\ NoCallSinceStart) =>
          \A s \in Slots :
              tasks'[s].op \notin GmailOps \cup {"authenticateGoogle"}]_vars

\* the coordinator answered a LOG_EMAIL while the setting was on
LogEmailHandled ==
    /\ last.op = "LOG_EMAIL"
    /\ Len(last.resp) = 1
    /\ getSettings.showNotifications

\* C20: after every LOG_EMAIL the coordinator handles while the
\* showNotifications setting is true, whether the logging succeeded or failed,
\* the coordinator eventually creates a local notification for it.
C20_LogEmailLeadsToNotification ==
    LogEmailHandled ~> (notifications # <<>>)

\* the first message after a worker start is taken up
FirstMessageAfterStart ==
    /\ NoCallSinceStart
    /\ opCount' = opCount + 1

\* C21: after a cold start with auth records in storage every message sees
\* the persisted state, also before initializeAuth has completed:
\* GET_AUTH_STATE returns the persisted tracks, and LOG_EMAIL and
\* SEARCH_CONTACT requests go to the persisted apiUrl.
C21_MessagesSeePersistedState ==
    [][FirstMessageAfterStart =>
          /\ last'.op = "GET_AUTH_STATE" =>
                /\ last'.res.data.google = localStore[STORAGE_KEYS.GOOGLE_TOKEN]
                /\ last'.res.data.bizdash = localStore[STORAGE_KEYS.BIZDASH_AUTH]
          /\ \A s \in Slots :
                (/\ tasks'[s].op \in {"LOG_EMAIL", "SEARCH_CONTACT"}
                 /\ localStore[STORAGE_KEYS.BIZDASH_AUTH] # Null)
                    => tasks'[s].loc.url = localStore[STORAGE_KEYS.BIZDASH_AUTH].apiUrl
      ]_vars

NoAuthInFlight == init.pc = "done" /\ \A s \in Slots : ~InFlight(s)

C23_MessageIdDeterminedByEmail ==
    [][(dom # Null /\ dom' = dom) =>
          LogRequest(extractEmailFromDOM(dom))'.gmailMessageId
              = LogRequest(extractEmailFromDOM(dom)).gmailMessageId]_vars

\* the authentication attempt of the popup failed: the coordinator answered
\* {success: false}, or the sendMessage of the handler rejected
PopupAuthFailed == popup.auth \in {"failed", "rejected"}

\* C24: after an authentication attempt started from the popup fails, the
\* popup eventually leaves its loading state and shows the connect button
\* again; it never stays in loading forever.
C24_FailedAuthLeavesLoading ==
    PopupAuthFailed ~> (popup.viewState # "loading")

\* the one call made since the extension was installed was an authenticate
\* call, and it rejected
OnlyCallRejected ==
    /\ opCount = 1
    /\ restarts = 0
    /\ last.op \in BizDashOps \cup GoogleOps
    /\ last.res.state = "rejected"

\* C25: an authenticateBizDash or authenticateGoogle call that rejects, for a
\* failed probe or consent or for a failed write to local storage, leaves the
\* AuthState, the stored auth records and the configuration of the CRM and
\* Gmail clients as they were before the call (here: as installed).
C25_RejectedAuthenticateChangesNothing ==
    OnlyCallRejected =>
        /\ currentAuthState = DEFAULT_AUTH_STATE
        /\ localStore[STORAGE_KEYS.GOOGLE_TOKEN] = Null
        /\ localStore[STORAGE_KEYS.BIZDASH_AUTH] = Null
        /\ apiBaseUrl = DefaultApiUrl
        /\ authToken = NullToken
        /\ accessToken = NullToken

\* lib/gmail-api isGmailConfigured
isGmailConfigured == accessToken # NullToken

\* a revokeGoogleToken (called directly, or by signOutAll) that had a token
\* to revoke completes while nothing else is in flight
RevokeCompletes(s) ==
    /\ tasks[s].op = "revokeGoogleToken"
    /\ tasks[s].pc = "removeGoogle"
    /\ tasks[s].loc.token # NullToken
    /\ tasks'[s].pc = "idle"
    /\ last'.res.state = "resolved"
    /\ \A r \in Slots \ {s} : Free(r)

\* C26: after revokeGoogleToken or signOutAll completes, the Gmail API client
\* no longer holds the revoked access token: isGmailConfigured() is false, so
\* a later getMessage, getThread or getCurrentUserEmail fails with the
\* missing-token error instead of sending a request with the revoked token.
C26_RevokedTokenLeavesGmailClient ==
    [][\A s \in Slots :
         RevokeCompletes(s) => (~isGmailConfigured' /\ accessToken' # tasks[s].loc.token)
      ]_vars

\* what authenticateBizDash configured when it stored the record
ConfiguredFor(record) ==
    [apiBaseUrl |-> record.apiUrl,
     authToken |-> configureApi(IF record.apiKey = NoKey THEN "" ELSE record.apiKey)]

\* C27: the CRM client's configuration survives a restart: after
\* authenticateBizDash, a restart and initializeAuth, the base URL and the
\* bearer token are those in effect right after authenticateBizDash.
C27_CrmConfigurationSurvivesRestart ==
    (/\ Resumed
     /\ init.outcome = "loaded"
     /\ localStore[STORAGE_KEYS.BIZDASH_AUTH] # Null)
        => [apiBaseUrl |-> apiBaseUrl, authToken |-> authToken]
               = ConfiguredFor(localStore[STORAGE_KEYS.BIZDASH_AUTH])

\* handleLogEmail resumes with a success after the user has moved to another
\* message and checkEmailChange has taken note of it
LateSuccess ==
    /\ ui.call # 0
    /\ ui'.call = 0
    /\ Len(last'.resp) = 1
    /\ last'.resp[1].success
    /\ dom # Null
    /\ dom.messageId \in MessageIds
    /\ ui.currentEmailId = dom.messageId
    /\ ui.email.messageId # dom.messageId

\* C28: isLogged = true always refers to the email currently open: a
\* LOG_EMAIL response that arrives after the user has moved to another email
\* never marks that other email as logged.
C28_LoggedRefersToOpenEmail ==
    [][LateSuccess => ~ui'.isLogged]_vars

\* C29: one activation of the injected menu item, a mousedown followed by the
\* click of the same press, sends at most one LOG_EMAIL message.
C29_OneActivationOneMessage ==
    press.sent <= 1

\* C30: every context menu contains at most one injected "Log to CRM" item,
\* whatever the order of the injection attempts that the right-clicks schedule.
C30_AtMostOneItemPerMenu ==
    \A m \in MenuIds : menus[m].items <= 1

\* C30 (witness): two right-clicks have scheduled attempts, several of them
\* ran after an item was in the menu, and the menu holds that one item
C30_Witness ==
    /\ Len(watchers) = MaxRightClicks
    /\ \A k \in DOMAIN watchers : Len(watchers[k].timers) <= 1
    /\ \E k \in DOMAIN watchers : Len(watchers[k].timers) = 1
    /\ \E m \in MenuIds : menus[m].inDom /\ menus[m].visible /\ menus[m].items = 1

====
